---- MODULE Spec2Model ----
(***************************************************************************)
(* Model of gdrive-mcp's gdrive_update_doc_content tool                    *)
(* (tools/update-doc-content.ts): the handler, the JSONPath-targeted edit  *)
(* (handleJsonPathOperation), the insert generator                         *)
(* (generateRequestsFromContent) and the document service it talks to.     *)
(*                                                                         *)
(* Text is a sequence of one-character strings, so that Len is the         *)
(* JavaScript string length; a JavaScript object is a record (or function) *)
(* whose DOMAIN holds exactly the properties that are present.             *)
(***************************************************************************)
EXTENDS Integers, Sequences, FiniteSets, TLC

VARIABLES
    pc,            \* position of the running invocation
    args,          \* the arguments of the running invocation
    doc,           \* the text of the addressed document, as the service holds it
    doc0,          \* that text as it was when the running invocation began
    snapshot,      \* handleJsonPathOperation's local `doc` (first documents.get)
    requests,      \* the local `requests` (the compiled instruction list)
    currentIndex,  \* generateRequestsFromContent's cursor when its loop ends
    calls,         \* the service calls issued by the running invocation, in order
    result         \* what the handler returns to the caller

vars == <<pc, args, doc, doc0, snapshot, requests, currentIndex, calls, result>>

NL == "\n"

None == [none |-> TRUE]

RECURSIVE SumLen(_)
SumLen(texts) ==
    IF texts = <<>> THEN 0 ELSE Len(Head(texts)) + SumLen(Tail(texts))

RECURSIVE Flatten(_)
Flatten(texts) ==
    IF texts = <<>> THEN <<>> ELSE Head(texts) \o Flatten(Tail(texts))

(***************************************************************************)
(* Content items (contentItemSchema).                                      *)
(***************************************************************************)
MinLevel == 1
MaxLevel == 6

Heading(level, text) == [type |-> "heading", level |-> level, text |-> text]
Paragraph(text) == [type |-> "paragraph", text |-> text]
BulletList(items) == [type |-> "bulletList", items |-> items]

HeadingStyleName(level) ==
    CASE level = 1 -> "HEADING_1"
      [] level = 2 -> "HEADING_2"
      [] level = 3 -> "HEADING_3"
      [] level = 4 -> "HEADING_4"
      [] level = 5 -> "HEADING_5"
      [] level = 6 -> "HEADING_6"

(***************************************************************************)
(* The instructions generateRequestsFromContent pushes.                    *)
(***************************************************************************)
InsertTextRequest(index, text) ==
    [insertText |-> [location |-> [index |-> index], text |-> text]]

NamedStyleRequest(startIndex, endIndex, namedStyleType) ==
    [updateParagraphStyle |->
        [range |-> [startIndex |-> startIndex, endIndex |-> endIndex],
         paragraphStyle |-> [namedStyleType |-> namedStyleType],
         fields |-> << "namedStyleType" >>]]

BulletsRequest(startIndex, endIndex) ==
    [createParagraphBullets |->
        [range |-> [startIndex |-> startIndex, endIndex |-> endIndex],
         bulletPreset |-> "BULLET_DISC_CIRCLE_SQUARE"]]

DeleteRequest(startIndex, endIndex) ==
    [deleteContentRange |->
        [range |-> [startIndex |-> startIndex, endIndex |-> endIndex]]]

(***************************************************************************)
(* generateRequestsFromContent: one step per content item (per bullet item *)
(* of a bulletList), threading the pair (requests, currentIndex).          *)
(***************************************************************************)
\* HeadingStep with the style range ending before the appended newline.
HeadingStepShortRange(acc, item) ==
    LET text == item.text \o <<NL>>
    IN  [requests |-> acc.requests \o
            << InsertTextRequest(acc.currentIndex, text),
               NamedStyleRequest(acc.currentIndex,
                                 acc.currentIndex + Len(item.text),
                                 HeadingStyleName(item.level)) >>,
         currentIndex |-> acc.currentIndex + Len(text)]

HeadingStep(acc, item) ==
    LET text == item.text \o <<NL>>
    IN  [requests |-> acc.requests \o
            << InsertTextRequest(acc.currentIndex, text),
               NamedStyleRequest(acc.currentIndex, acc.currentIndex + Len(text),
                                 HeadingStyleName(item.level)) >>,
         currentIndex |-> acc.currentIndex + Len(text)]

\* ParagraphStep with the cursor advanced by the item's text only.
ParagraphStepNoNewline(acc, item) ==
    LET text == item.text \o <<NL>>
    IN  [requests |-> acc.requests \o
            << InsertTextRequest(acc.currentIndex, text) >>,
         currentIndex |-> acc.currentIndex + Len(item.text)]

ParagraphStep(acc, item) ==
    LET text == item.text \o <<NL>>
    IN  [requests |-> acc.requests \o
            << InsertTextRequest(acc.currentIndex, text) >>,
         currentIndex |-> acc.currentIndex + Len(text)]

\* BulletStep with the ranges read after the cursor has moved.
BulletStepRangeAfter(acc, bulletItem) ==
    LET text == bulletItem \o <<NL>>
        textStartIndex == acc.currentIndex + Len(text)
        textEndIndex == acc.currentIndex + Len(text) + Len(text)
    IN  [requests |-> acc.requests \o
            << InsertTextRequest(acc.currentIndex, text),
               NamedStyleRequest(textStartIndex, textEndIndex, "NORMAL_TEXT"),
               BulletsRequest(textStartIndex, textEndIndex) >>,
         currentIndex |-> acc.currentIndex + Len(text)]

BulletStep(acc, bulletItem) ==
    LET text == bulletItem \o <<NL>>
        textStartIndex == acc.currentIndex
        textEndIndex == acc.currentIndex + Len(text)
    IN  [requests |-> acc.requests \o
            << InsertTextRequest(acc.currentIndex, text),
               NamedStyleRequest(textStartIndex, textEndIndex, "NORMAL_TEXT"),
               BulletsRequest(textStartIndex, textEndIndex) >>,
         currentIndex |-> acc.currentIndex + Len(text)]

RECURSIVE BulletLoop(_, _)
BulletLoop(acc, items) ==
    IF items = <<>> THEN acc
    ELSE BulletLoop(BulletStep(acc, Head(items)), Tail(items))

\* ItemStep that resets the named style of a paragraph item as well.
ItemStepStyledParagraph(acc, item) ==
    CASE item.type = "heading" -> HeadingStep(acc, item)
      [] item.type = "paragraph" ->
            [requests |-> ParagraphStep(acc, item).requests \o
                << NamedStyleRequest(acc.currentIndex,
                                     acc.currentIndex + Len(item.text) + 1,
                                     "NORMAL_TEXT") >>,
             currentIndex |-> ParagraphStep(acc, item).currentIndex]
      [] item.type = "bulletList" -> BulletLoop(acc, item.items)
      [] OTHER -> acc

ItemStep(acc, item) ==
    CASE item.type = "heading" -> HeadingStep(acc, item)
      [] item.type = "paragraph" -> ParagraphStep(acc, item)
      [] item.type = "bulletList" -> BulletLoop(acc, item.items)
      [] OTHER -> acc

RECURSIVE ContentLoop(_, _)
ContentLoop(acc, content) ==
    IF content = <<>> THEN acc
    ELSE ContentLoop(ItemStep(acc, Head(content)), Tail(content))

generateRequestsFromContent(content, startIndex) ==
    ContentLoop([requests |-> <<>>, currentIndex |-> startIndex], content)

(***************************************************************************)
(* The generator on its own: Init draws a content list and an anchor, the  *)
(* one action applies generateRequestsFromContent to them.                 *)
(***************************************************************************)
MaxGenItems == 3

GenItems ==
    { Heading(l, <<"H">>) : l \in MinLevel..MaxLevel }
    \cup { Heading(1, <<>>) }
    \cup { Paragraph(t) : t \in { <<>>, <<"P">>, <<"P", "Q">> } }
    \cup { BulletList(b) :
             b \in { <<>>, << <<"A">> >>, << <<"A">>, <<"B">> >>,
                     << <<>>, <<"A", "B">> >> } }

GenContents == UNION { [1..n -> GenItems] : n \in 0..MaxGenItems }

GenAnchors == {1, 10}

InitGen ==
    /\ pc = "gen"
    /\ \E c \in GenContents, a \in GenAnchors :
          args = [content |-> c, startIndex |-> a]
    /\ doc = <<>>
    /\ doc0 = <<>>
    /\ snapshot = None
    /\ requests = <<>>
    /\ currentIndex = 0
    /\ calls = <<>>
    /\ result = None

Generate ==
    /\ pc = "gen"
    /\ LET out == generateRequestsFromContent(args.content, args.startIndex)
       IN  /\ requests' = out.requests
           /\ currentIndex' = out.currentIndex
    /\ pc' = "generated"
    /\ UNCHANGED <<args, doc, doc0, snapshot, calls, result>>

NextGen == Generate

SpecGen == InitGen /\ [][NextGen]_vars

(***************************************************************************)
(* The document service (docs.documents.get / batchUpdate).  The document  *)
(* is a sequence of cells; cell k holds the character at document index k  *)
(* (index 0 is the leading section break).  `by` records which instruction *)
(* of the running batch put the character there (0: it was already there). *)
(***************************************************************************)
Cell(ch, by) == [ch |-> ch, by |-> by]

CellsOf(text, by) == [k \in 1..Len(text) |-> Cell(text[k], by)]

TextOf(cells) == [k \in 1..Len(cells) |-> cells[k].ch]

\* The index of the first newline at or after `from`.
RECURSIVE NextNewline(_, _)
NextNewline(cells, from) ==
    IF from > Len(cells) THEN Len(cells)
    ELSE IF cells[from].ch = NL THEN from
    ELSE NextNewline(cells, from + 1)

ParagraphElement(cells, s, e) ==
    [startIndex |-> s,
     endIndex |-> e,
     paragraph |->
        [elements |->
            << [startIndex |-> s,
                endIndex |-> e,
                textRun |-> [content |-> TextOf(SubSeq(cells, s, e - 1))]] >>,
         paragraphStyle |-> [namedStyleType |-> "NORMAL_TEXT"]]]

RECURSIVE ParagraphsFrom(_, _)
ParagraphsFrom(cells, s) ==
    IF s > Len(cells) THEN <<>>
    ELSE LET e == NextNewline(cells, s) + 1
         IN  << ParagraphElement(cells, s, e) >> \o ParagraphsFrom(cells, e)

\* documents.get: the structure of the document.  The service leaves out an
\* index that is 0, so the leading section break carries no startIndex.
Snapshot(cells) ==
    [documentStyle |-> [pageNumberStart |-> 1],
     body |->
        [content |->
            << [endIndex |-> 1, sectionBreak |-> [sectionType |-> "CONTINUOUS"]] >>
            \o ParagraphsFrom(cells, 1)]]

InRange(cells, range) ==
    /\ 1 <= range.startIndex
    /\ range.startIndex < range.endIndex
    /\ range.endIndex <= Len(cells) + 1

\* One instruction, the k-th of its batch, applied to the document.
ApplyRequest(cells, r, k) ==
    CASE "insertText" \in DOMAIN r ->
            LET i == r.insertText.location.index
            IN  IF 1 <= i /\ i <= Len(cells)
                THEN [ok |-> TRUE,
                      cells |-> SubSeq(cells, 1, i - 1)
                                \o CellsOf(r.insertText.text, k)
                                \o SubSeq(cells, i, Len(cells))]
                ELSE [ok |-> FALSE, cells |-> cells]
      [] "deleteContentRange" \in DOMAIN r ->
            LET range == r.deleteContentRange.range
            IN  IF InRange(cells, range) /\ range.endIndex <= Len(cells)
                THEN [ok |-> TRUE,
                      cells |-> SubSeq(cells, 1, range.startIndex - 1)
                                \o SubSeq(cells, range.endIndex, Len(cells))]
                ELSE [ok |-> FALSE, cells |-> cells]
      [] "updateParagraphStyle" \in DOMAIN r ->
            [ok |-> InRange(cells, r.updateParagraphStyle.range), cells |-> cells]
      [] "updateTextStyle" \in DOMAIN r ->
            [ok |-> InRange(cells, r.updateTextStyle.range), cells |-> cells]
      [] "createParagraphBullets" \in DOMAIN r ->
            [ok |-> InRange(cells, r.createParagraphBullets.range), cells |-> cells]
      [] OTHER -> [ok |-> FALSE, cells |-> cells]

\* The instructions from the k-th on, applied one after the other, each to
\* the document as the one before it left it.
RECURSIVE ApplyFrom(_, _, _)
ApplyFrom(cells, reqs, k) ==
    IF k > Len(reqs) THEN [ok |-> TRUE, cells |-> cells]
    ELSE LET one == ApplyRequest(cells, reqs[k], k)
         IN  IF one.ok THEN ApplyFrom(one.cells, reqs, k + 1)
             ELSE [ok |-> FALSE, cells |-> cells]

\* documents.batchUpdate: all of the batch or none of it.
ApplyBatch(cells, reqs) ==
    LET out == ApplyFrom(cells, reqs, 1)
    IN  IF out.ok THEN out ELSE [ok |-> FALSE, cells |-> cells]

(***************************************************************************)
(* JSONPath({path, json}) for the path forms the tool's description names: *)
(* $.body.content[i], $.body.content[i].paragraph.elements[j],             *)
(* $.body.content[*] and $.documentStyle.  The result is the list of the   *)
(* nodes the path selects.                                                 *)
(***************************************************************************)
ContentPath(i) == [kind |-> "content", i |-> i]
ElementPath(i, j) == [kind |-> "element", i |-> i, j |-> j]
AllContentPath == [kind |-> "contentAll"]
DocumentStylePath == [kind |-> "documentStyle"]

JSONPath(path, json) ==
    LET content == json.body.content
    IN  CASE path.kind = "content" ->
                IF path.i + 1 <= Len(content) THEN << content[path.i + 1] >>
                ELSE <<>>
          [] path.kind = "element" ->
                IF /\ path.i + 1 <= Len(content)
                   /\ "paragraph" \in DOMAIN content[path.i + 1]
                   /\ path.j + 1 <= Len(content[path.i + 1].paragraph.elements)
                THEN << content[path.i + 1].paragraph.elements[path.j + 1] >>
                ELSE <<>>
          [] path.kind = "contentAll" -> content
          [] path.kind = "documentStyle" -> << json.documentStyle >>
          [] OTHER -> <<>>

(***************************************************************************)
(* extractDocId.  A reference is a sequence of tokens: "c" a character of  *)
(* [a-zA-Z0-9-_], "#" any other character, "/document/d/" that substring.  *)
(* The result is the id, or None for null.                                 *)
(***************************************************************************)
RECURSIVE IdRun(_)
IdRun(tokens) ==
    IF tokens # <<>> /\ Head(tokens) = "c"
    THEN << "c" >> \o IdRun(Tail(tokens))
    ELSE <<>>

RECURSIVE UrlMatch(_)
UrlMatch(tokens) ==
    IF tokens = <<>> THEN <<>>
    ELSE IF Head(tokens) = "/document/d/" /\ IdRun(Tail(tokens)) # <<>>
    THEN IdRun(Tail(tokens))
    ELSE UrlMatch(Tail(tokens))

extractDocId(input) ==
    IF UrlMatch(input) # <<>> THEN UrlMatch(input)
    ELSE IF input # <<>> /\ \A k \in 1..Len(input) : input[k] = "c" THEN input
    ELSE None

(***************************************************************************)
(* JavaScript tests on an optional property.                               *)
(***************************************************************************)
\* obj.p !== undefined
Defined(obj, p) == p \in DOMAIN obj

\* if (obj.p), for a property that holds an object: an object is truthy.
TruthyObject(obj, p) == p \in DOMAIN obj

\* if (obj.p), for a property that holds a string.
TruthyString(obj, p) == p \in DOMAIN obj /\ obj[p] # ""

\* if (obj.p), for a property that holds a number.
TruthyNumber(obj, p) == p \in DOMAIN obj /\ obj[p] # 0

\* fields.join(","): the names with a separator between neighbours.
RECURSIVE JoinComma(_)
JoinComma(fields) ==
    IF Len(fields) <= 1 THEN fields
    ELSE << Head(fields), "," >> \o JoinComma(Tail(fields))

EmptyObject == <<>>

Put(acc, name, value) ==
    [style |-> acc.style @@ (name :> value),
     fields |-> Append(acc.fields, name)]

Points(magnitude) == [magnitude |-> magnitude, unit |-> "PT"]

(***************************************************************************)
(* handleJsonPathOperation, updateTextStyle: the style payload and the     *)
(* list of field names, one `if` per attribute.                            *)
(***************************************************************************)
\* The fontSize test written as a truthiness test.
TextFontSizeTruthy(acc, ts) ==
    IF TruthyNumber(ts, "fontSize")
    THEN Put(acc, "fontSize", Points(ts.fontSize)) ELSE acc

TextFontSize(acc, ts) ==
    IF Defined(ts, "fontSize")
    THEN Put(acc, "fontSize", Points(ts.fontSize)) ELSE acc

TextBold(acc, ts) ==
    IF Defined(ts, "bold") THEN Put(acc, "bold", ts.bold) ELSE acc

TextItalic(acc, ts) ==
    IF Defined(ts, "italic") THEN Put(acc, "italic", ts.italic) ELSE acc

TextUnderline(acc, ts) ==
    IF Defined(ts, "underline") THEN Put(acc, "underline", ts.underline) ELSE acc

TextStrikethrough(acc, ts) ==
    IF Defined(ts, "strikethrough")
    THEN Put(acc, "strikethrough", ts.strikethrough) ELSE acc

TextForegroundColor(acc, ts) ==
    IF TruthyObject(ts, "foregroundColor")
    THEN Put(acc, "foregroundColor",
             [color |-> [rgbColor |-> ts.foregroundColor]])
    ELSE acc

TextBackgroundColor(acc, ts) ==
    IF TruthyObject(ts, "backgroundColor")
    THEN Put(acc, "backgroundColor",
             [color |-> [rgbColor |-> ts.backgroundColor]])
    ELSE acc

TextLink(acc, ts) ==
    IF TruthyObject(ts, "link")
    THEN Put(acc, "link", [url |-> ts.link.url]) ELSE acc

BuildTextStyle(ts) ==
    TextLink(
      TextBackgroundColor(
        TextForegroundColor(
          TextFontSize(
            TextStrikethrough(
              TextUnderline(
                TextItalic(
                  TextBold([style |-> EmptyObject, fields |-> <<>>], ts),
                  ts), ts), ts), ts), ts), ts), ts)

UpdateTextStyleRequest(startIndex, endIndex, built) ==
    [updateTextStyle |->
        [range |-> [startIndex |-> startIndex, endIndex |-> endIndex],
         textStyle |-> built.style,
         fields |-> JoinComma(built.fields)]]

(***************************************************************************)
(* handleJsonPathOperation, updateParagraphStyle: likewise.                *)
(***************************************************************************)
ParaLineSpacing(acc, ps) ==
    IF Defined(ps, "lineSpacing")
    THEN Put(acc, "lineSpacing", ps.lineSpacing) ELSE acc

ParaHeadingLevel(acc, ps) ==
    IF TruthyString(ps, "headingLevel")
    THEN Put(acc, "namedStyleType", ps.headingLevel) ELSE acc

ParaAlignment(acc, ps) ==
    IF TruthyString(ps, "alignment")
    THEN Put(acc, "alignment", ps.alignment) ELSE acc

ParaDirection(acc, ps) ==
    IF TruthyString(ps, "direction")
    THEN Put(acc, "direction", ps.direction) ELSE acc

ParaIndentStart(acc, ps) ==
    IF Defined(ps, "indentStart")
    THEN Put(acc, "indentStart", Points(ps.indentStart)) ELSE acc

ParaIndentEnd(acc, ps) ==
    IF Defined(ps, "indentEnd")
    THEN Put(acc, "indentEnd", Points(ps.indentEnd)) ELSE acc

ParaIndentFirstLine(acc, ps) ==
    IF Defined(ps, "indentFirstLine")
    THEN Put(acc, "indentFirstLine", Points(ps.indentFirstLine)) ELSE acc

BuildParagraphStyle(ps) ==
    ParaIndentFirstLine(
      ParaIndentEnd(
        ParaIndentStart(
          ParaDirection(
            ParaLineSpacing(
              ParaAlignment(
                ParaHeadingLevel([style |-> EmptyObject, fields |-> <<>>], ps),
                ps), ps), ps), ps), ps), ps)

UpdateParagraphStyleRequest(startIndex, endIndex, built) ==
    [updateParagraphStyle |->
        [range |-> [startIndex |-> startIndex, endIndex |-> endIndex],
         paragraphStyle |-> built.style,
         fields |-> JoinComma(built.fields)]]

(***************************************************************************)
(* handleJsonPathOperation from the resolved target to the instruction     *)
(* list: one operator per operation.  The outcome is either the list and   *)
(* the description of the operation, or the message of the Error thrown.   *)
(***************************************************************************)
Throw(message) == [ok |-> FALSE, message |-> message]

Compiled(reqs, description, cursor) ==
    [ok |-> TRUE, requests |-> reqs, operationDescription |-> description,
     currentIndex |-> cursor]

\* !targetElement.startIndex || !targetElement.endIndex
LacksRange(targetElement) ==
    \/ ~TruthyNumber(targetElement, "startIndex")
    \/ ~TruthyNumber(targetElement, "endIndex")

\* NoContent without the test for an empty list.
NoContentAbsentOnly(a) == ~Defined(a, "content")

\* !content || content.length === 0
NoContent(a) == ~Defined(a, "content") \/ Len(a.content) = 0

\* CompileUpdateTextStyle that takes an absent textStyle for an empty patch.
CompileUpdateTextStyleUnchecked(a, targetElement) ==
    IF LacksRange(targetElement)
    THEN Throw(<< "Target element must have startIndex and endIndex for",
                  "updateTextStyle", "operation" >>)
    ELSE Compiled(
            << UpdateTextStyleRequest(
                   targetElement.startIndex, targetElement.endIndex,
                   BuildTextStyle(IF Defined(a, "textStyle") THEN a.textStyle
                                  ELSE EmptyObject)) >>,
            << "Updated text style from index", targetElement.startIndex,
               "to", targetElement.endIndex >>,
            0)

CompileUpdateTextStyle(a, targetElement) ==
    IF ~TruthyObject(a, "textStyle")
    THEN Throw(<< "updateTextStyle operation requires textStyle to be provided" >>)
    ELSE IF LacksRange(targetElement)
    THEN Throw(<< "Target element must have startIndex and endIndex for",
                  "updateTextStyle", "operation" >>)
    ELSE Compiled(
            << UpdateTextStyleRequest(targetElement.startIndex,
                                      targetElement.endIndex,
                                      BuildTextStyle(a.textStyle)) >>,
            << "Updated text style from index", targetElement.startIndex,
               "to", targetElement.endIndex >>,
            0)

CompileUpdateParagraphStyle(a, targetElement) ==
    IF ~TruthyObject(a, "paragraphStyle")
    THEN Throw(<< "updateParagraphStyle operation requires paragraphStyle to be provided" >>)
    ELSE IF LacksRange(targetElement)
    THEN Throw(<< "Target element must have startIndex and endIndex for",
                  "updateParagraphStyle", "operation" >>)
    ELSE Compiled(
            << UpdateParagraphStyleRequest(targetElement.startIndex,
                                           targetElement.endIndex,
                                           BuildParagraphStyle(a.paragraphStyle)) >>,
            << "Updated paragraph style from index", targetElement.startIndex,
               "to", targetElement.endIndex >>,
            0)

\* CompileDelete that also inserts the content it is given.
CompileDeleteWithContent(a, targetElement) ==
    IF LacksRange(targetElement)
    THEN Throw(<< "Target element must have startIndex and endIndex for",
                  "delete", "operation" >>)
    ELSE Compiled(
            << DeleteRequest(targetElement.startIndex, targetElement.endIndex) >>
            \o (IF Defined(a, "content")
                THEN generateRequestsFromContent(
                         a.content, targetElement.startIndex).requests
                ELSE <<>>),
            << "Deleted element from index", targetElement.startIndex,
               "to", targetElement.endIndex >>,
            0)

CompileDelete(a, targetElement) ==
    IF LacksRange(targetElement)
    THEN Throw(<< "Target element must have startIndex and endIndex for",
                  "delete", "operation" >>)
    ELSE Compiled(
            << DeleteRequest(targetElement.startIndex, targetElement.endIndex) >>,
            << "Deleted element from index", targetElement.startIndex,
               "to", targetElement.endIndex >>,
            0)

\* CompileReplace with the new content anchored at the end of the old span.
CompileReplaceAtEnd(a, targetElement) ==
    IF NoContent(a)
    THEN Throw(<< "Replace operation requires content to be provided" >>)
    ELSE IF LacksRange(targetElement)
    THEN Throw(<< "Target element must have startIndex and endIndex for",
                  "replace", "operation" >>)
    ELSE LET gen == generateRequestsFromContent(a.content,
                                                targetElement.endIndex)
         IN  Compiled(
                << DeleteRequest(targetElement.startIndex,
                                 targetElement.endIndex) >> \o gen.requests,
                << "Replaced element at index", targetElement.startIndex,
                   "-", targetElement.endIndex >>,
                gen.currentIndex)

CompileReplace(a, targetElement) ==
    IF NoContent(a)
    THEN Throw(<< "Replace operation requires content to be provided" >>)
    ELSE IF LacksRange(targetElement)
    THEN Throw(<< "Target element must have startIndex and endIndex for",
                  "replace", "operation" >>)
    ELSE LET gen == generateRequestsFromContent(a.content,
                                                targetElement.startIndex)
         IN  Compiled(
                << DeleteRequest(targetElement.startIndex,
                                 targetElement.endIndex) >> \o gen.requests,
                << "Replaced element at index", targetElement.startIndex,
                   "-", targetElement.endIndex >>,
                gen.currentIndex)

\* CompileInsert that asks for both indices whatever the operation.
CompileInsertNeedsRange(a, targetElement) ==
    IF NoContent(a)
    THEN Throw(<< a.operation, "operation requires content to be provided" >>)
    ELSE IF LacksRange(targetElement)
    THEN Throw(<< "Target element does not have an endIndex" >>)
    ELSE LET at == IF a.operation = "insertAfter" THEN targetElement.endIndex
                   ELSE targetElement.startIndex
             gen == generateRequestsFromContent(a.content, at)
         IN  Compiled(gen.requests, << "Insert index:", at >>, gen.currentIndex)

CompileInsert(a, targetElement) ==
    IF NoContent(a)
    THEN Throw(<< a.operation, "operation requires content to be provided" >>)
    ELSE IF a.operation = "insertAfter"
    THEN IF ~TruthyNumber(targetElement, "endIndex")
         THEN Throw(<< "Target element does not have an endIndex" >>)
         ELSE LET gen == generateRequestsFromContent(a.content,
                                                     targetElement.endIndex)
              IN  Compiled(gen.requests,
                           << "Insert index:", targetElement.endIndex >>,
                           gen.currentIndex)
    ELSE IF ~TruthyNumber(targetElement, "startIndex")
         THEN Throw(<< "Target element does not have a startIndex" >>)
         ELSE LET gen == generateRequestsFromContent(a.content,
                                                     targetElement.startIndex)
              IN  Compiled(gen.requests,
                           << "Insert index:", targetElement.startIndex >>,
                           gen.currentIndex)

CompileOperation(a, targetElement) ==
    IF a.operation = "updateTextStyle"
    THEN CompileUpdateTextStyle(a, targetElement)
    ELSE IF a.operation = "updateParagraphStyle"
    THEN CompileUpdateParagraphStyle(a, targetElement)
    ELSE IF a.operation = "delete"
    THEN CompileDelete(a, targetElement)
    ELSE IF a.operation = "replace"
    THEN CompileReplace(a, targetElement)
    ELSE CompileInsert(a, targetElement)

\* ResolveTarget that takes the first of several matches.
ResolveTargetFirst(a, data) ==
    LET results == JSONPath(a.target, data)
    IN  IF Len(results) = 0
        THEN Throw(<< "No element found at JSONPath:", a.target >>)
        ELSE [ok |-> TRUE, targetElement |-> results[1]]

\* The locator: the path must select exactly one node.
ResolveTarget(a, data) ==
    LET results == JSONPath(a.target, data)
    IN  IF Len(results) = 0
        THEN Throw(<< "No element found at JSONPath:", a.target >>)
        ELSE IF Len(results) > 1
        THEN Throw(<< "Multiple elements found at JSONPath:", a.target,
                      ". Path must be unique." >>)
        ELSE [ok |-> TRUE, targetElement |-> results[1]]

\* From the fetched document to the instruction list.
ResolveAndCompile(a, data) ==
    LET located == ResolveTarget(a, data)
    IN  IF ~located.ok THEN located
        ELSE CompileOperation(a, located.targetElement)

(***************************************************************************)
(* buildUpdateSummary: one line per instruction.                           *)
(***************************************************************************)
PreviewLimit == 50

\* What a template literal prints for a property that is not there.
Undefined == "undefined"

\* request.kind.outer?.inner
Chain(o, outer, inner) ==
    IF outer \in DOMAIN o /\ inner \in DOMAIN o[outer]
    THEN o[outer][inner] ELSE Undefined

Prop(o, name) == IF name \in DOMAIN o THEN o[name] ELSE Undefined

\* Object.keys(request)[0].  A request of the service sets one field, and
\* that field is its only key.
FirstKey(r) == IF DOMAIN r = {} THEN Undefined ELSE CHOOSE k \in DOMAIN r : TRUE

RangeLine(head, o) ==
    << head, Chain(o, "range", "startIndex"), "to", Chain(o, "range", "endIndex") >>

SummaryLine(r) ==
    IF "insertText" \in DOMAIN r THEN
        LET text == IF "text" \in DOMAIN r.insertText
                    THEN r.insertText.text ELSE <<>>
        IN  << "- Inserted text at index",
               Chain(r.insertText, "location", "index"),
               IF Len(text) > PreviewLimit
               THEN SubSeq(text, 1, PreviewLimit) \o << "..." >>
               ELSE text >>
    ELSE IF "deleteContentRange" \in DOMAIN r THEN
        RangeLine("- Deleted content from index", r.deleteContentRange)
    ELSE IF "updateTextStyle" \in DOMAIN r THEN
        RangeLine("- Updated text style from index", r.updateTextStyle)
    ELSE IF "updateParagraphStyle" \in DOMAIN r THEN
        RangeLine("- Updated paragraph style from index", r.updateParagraphStyle)
    ELSE IF "insertTable" \in DOMAIN r THEN
        << "- Inserted table with", Prop(r.insertTable, "rows"), "rows and",
           Prop(r.insertTable, "columns"), "columns at index",
           Chain(r.insertTable, "location", "index") >>
    ELSE IF "insertTableRow" \in DOMAIN r THEN
        << "- Inserted table row at index",
           IF "insertBelow" \in DOMAIN r.insertTableRow
              /\ r.insertTableRow.insertBelow
           THEN "below" ELSE "above" >>
    ELSE IF "insertTableColumn" \in DOMAIN r THEN
        << "- Inserted table column at index",
           IF "insertRight" \in DOMAIN r.insertTableColumn
              /\ r.insertTableColumn.insertRight
           THEN "right" ELSE "left" >>
    ELSE IF "deleteTableRow" \in DOMAIN r THEN
        << "- Deleted table row" >>
    ELSE IF "deleteTableColumn" \in DOMAIN r THEN
        << "- Deleted table column" >>
    ELSE IF "replaceAllText" \in DOMAIN r THEN
        << "- Replaced all occurrences of",
           Chain(r.replaceAllText, "containsText", "text"), "with",
           Prop(r.replaceAllText, "replaceText") >>
    ELSE IF "createParagraphBullets" \in DOMAIN r THEN
        RangeLine("- Created paragraph bullets from index",
                  r.createParagraphBullets)
    ELSE IF "deleteParagraphBullets" \in DOMAIN r THEN
        RangeLine("- Deleted paragraph bullets from index",
                  r.deleteParagraphBullets)
    ELSE << "- Executed operation:", FirstKey(r) >>

\* The lines in the order they were pushed; entries that are no object
\* (if (!request) continue) push nothing.
RECURSIVE SummaryLines(_)
SummaryLines(reqs) ==
    IF reqs = <<>> THEN <<>>
    ELSE (IF Head(reqs) = None THEN <<>> ELSE << SummaryLine(Head(reqs)) >>)
         \o SummaryLines(Tail(reqs))

buildUpdateSummaryLastFirst(reqs) ==
    LET operations == SummaryLines(reqs)
    IN  IF Len(operations) > 0
        THEN << "Operations performed:" >>
             \o [k \in 1..Len(operations) |->
                    operations[Len(operations) + 1 - k]]
        ELSE << "No operations described" >>

buildUpdateSummary(reqs) ==
    LET operations == SummaryLines(reqs)
    IN  IF Len(operations) > 0
        THEN << "Operations performed:" >> \o operations
        ELSE << "No operations described" >>

(***************************************************************************)
(* What the handler returns.                                               *)
(***************************************************************************)
ErrorResult(message) ==
    [content |-> << [type |-> "text", text |-> << "Error:", message >>] >>,
     isError |-> TRUE]

\* ReturnedStructure that answers with the document the list was compiled from.
ReturnedStructureStale(compiledFrom, updatedDoc) == compiledFrom

\* The structure the success text ends with.
ReturnedStructure(compiledFrom, updatedDoc) == updatedDoc

SuccessResult(a, out, summary, compiledFrom, updatedDoc) ==
    [content |->
        << [type |-> "text",
            text |->
               [head |-> "Document updated successfully using JSONPath targeting.",
                target |-> a.target,
                operation |-> a.operation,
                operationDescription |-> out.operationDescription,
                summary |-> summary,
                structure |-> ReturnedStructure(compiledFrom, updatedDoc)]] >>]

IsError(r) == r # None /\ "isError" \in DOMAIN r
IsSuccess(r) == r # None /\ "isError" \notin DOMAIN r

(***************************************************************************)
(* The inputs: documents, references, paths, content lists, style patches. *)
(***************************************************************************)
MaxContent == 2
MaxPathIndex == 6

Para(n) == [k \in 1..n |-> IF k = n THEN NL ELSE "x"]

ShortText == << "x", NL, "y", "z", NL >>

\* Paragraphs [1,10) [10,20) [20,30) [30,50) [50,80) [80,81).
LongText == Para(9) \o Para(10) \o Para(10) \o Para(20) \o Para(30) \o Para(1)

Docs == { CellsOf(ShortText, 0), CellsOf(LongText, 0) }

GoodId == << "c", "c" >>
GoodUrl == << "#", "/document/d/", "c", "c", "#" >>

DocRefs ==
    { GoodId, GoodUrl, <<>>, << "#" >>, << "c", "#" >>, << "/document/d/" >>,
      << "/document/d/", "#", "c" >> }

Paths ==
    { ContentPath(i) : i \in 0..MaxPathIndex }
    \cup { ElementPath(i, 0) : i \in 0..MaxPathIndex }
    \cup { AllContentPath, DocumentStylePath }

RangeablePath == ContentPath(2)

Items ==
    { Heading(2, <<"H">>), Paragraph(<<"X">>), Paragraph(<<>>),
      BulletList(<< <<"A">>, <<"B">> >>), BulletList(<<>>) }

Contents == UNION { [1..n -> Items] : n \in 0..MaxContent }

Opt(name, values) == { EmptyObject } \cup { name :> v : v \in values }

TextStyles ==
    { b @@ i @@ u @@ s @@ f @@ fg @@ bg @@ l :
        b \in Opt("bold", BOOLEAN), i \in Opt("italic", {TRUE}),
        u \in Opt("underline", {FALSE}), s \in Opt("strikethrough", {TRUE}),
        f \in Opt("fontSize", {0, 12}),
        fg \in Opt("foregroundColor", { EmptyObject, [red |-> 1] }),
        bg \in Opt("backgroundColor", { [blue |-> 0] }),
        l \in Opt("link", { [url |-> "u"] }) }

ParagraphStyles ==
    { h @@ a @@ ls @@ d @@ i1 @@ i2 @@ i3 :
        h \in Opt("headingLevel", {"HEADING_1", "NORMAL_TEXT"}),
        a \in Opt("alignment", {"CENTER"}),
        ls \in Opt("lineSpacing", {0, 115}),
        d \in Opt("direction", {"RIGHT_TO_LEFT"}),
        i1 \in Opt("indentStart", {0, 36}),
        i2 \in Opt("indentEnd", {0}),
        i3 \in Opt("indentFirstLine", {18}) }

SampleTextStyle == [bold |-> TRUE]
SampleParagraphStyle == [headingLevel |-> "HEADING_1"]
SampleContent == << Paragraph(<<"X">>) >>

Operations ==
    { "insertAfter", "insertBefore", "replace", "delete",
      "updateTextStyle", "updateParagraphStyle" }

BaseArgs(op, t) == [doc_id_or_url |-> GoodId, operation |-> op, target |-> t]

\* Payload the operation at hand does not read.
Extras ==
    { EmptyObject,
      [content |-> SampleContent],
      [textStyle |-> SampleTextStyle],
      [paragraphStyle |-> SampleParagraphStyle],
      [content |-> SampleContent, textStyle |-> SampleTextStyle,
       paragraphStyle |-> SampleParagraphStyle] }

InsertArgs ==
    { BaseArgs(op, t) @@ c :
        op \in {"insertAfter", "insertBefore", "replace"}, t \in Paths,
        c \in { EmptyObject } \cup { [content |-> x] : x \in Contents } }

DeleteArgs == { BaseArgs("delete", t) @@ x : t \in Paths, x \in Extras }

TextStyleArgs ==
    { BaseArgs("updateTextStyle", t) @@ x : t \in Paths, x \in Extras }
    \cup { BaseArgs("updateTextStyle", RangeablePath) @@ [textStyle |-> ts] :
             ts \in TextStyles }

ParagraphStyleArgs ==
    { BaseArgs("updateParagraphStyle", t) @@ x : t \in Paths, x \in Extras }
    \cup { BaseArgs("updateParagraphStyle", RangeablePath)
             @@ [paragraphStyle |-> ps] : ps \in ParagraphStyles }

ReferenceArgs ==
    { [doc_id_or_url |-> r, operation |-> op, target |-> RangeablePath]
        @@ [content |-> SampleContent, textStyle |-> SampleTextStyle,
            paragraphStyle |-> SampleParagraphStyle] :
        r \in DocRefs, op \in Operations }

InputArgs ==
    InsertArgs \cup DeleteArgs \cup TextStyleArgs \cup ParagraphStyleArgs
    \cup ReferenceArgs

(***************************************************************************)
(* The handler, one action per stretch of code between two awaits.         *)
(***************************************************************************)
\* A call of the service and, once the service has answered, how: "ok",
\* "nodata" (an answer without data) or "error" (the call throws).
GetCall(docId) ==
    [method |-> "documents.get", documentId |-> docId, reply |-> "pending"]

BatchUpdateCall(docId, reqs) ==
    [method |-> "documents.batchUpdate", documentId |-> docId,
     requests |-> reqs, reply |-> "pending"]

Answered(log, how) == [log EXCEPT ![Len(log)].reply = how]

\* The locals of an invocation that has returned or thrown are gone.
Finish(r) ==
    /\ result' = r
    /\ pc' = "done"
    /\ snapshot' = None
    /\ requests' = <<>>
    /\ currentIndex' = 0

Init ==
    /\ pc = "idle"
    /\ args = None
    /\ doc \in Docs
    /\ doc0 = doc
    /\ snapshot = None
    /\ requests = <<>>
    /\ currentIndex = 0
    /\ calls = <<>>
    /\ result = None

\* handleJsonPathOperation up to the first documents.get.
BeginJsonPathOperation(a) ==
    IF extractDocId(a.doc_id_or_url) = None
    THEN /\ Finish(ErrorResult(<< "Invalid document ID or URL" >>))
         /\ calls' = <<>>
    ELSE /\ calls' = << GetCall(extractDocId(a.doc_id_or_url)) >>
         /\ pc' = "fetching"
         /\ result' = None
         /\ snapshot' = None
         /\ requests' = <<>>
         /\ currentIndex' = 0

\* handler called with arguments of the JSONPath form, then
\* handleJsonPathOperation up to the first documents.get.
Invoke ==
    /\ pc = "idle"
    /\ \E a \in InputArgs :
          /\ args' = a
          /\ BeginJsonPathOperation(a)
    /\ UNCHANGED <<doc, doc0>>

\* Between two invocations the document is out of the tool's hands: the
\* caller has the result, and the service holds whatever text other editors
\* leave in the document.
NextCall ==
    /\ pc \in {"done", "rejected"}
    /\ pc' = "idle"
    /\ args' = None
    /\ result' = None
    /\ calls' = <<>>
    /\ doc' \in Docs
    /\ doc0' = doc'
    /\ UNCHANGED <<snapshot, requests, currentIndex>>

\* The first documents.get fails.
FirstGetFails ==
    /\ pc = "fetching"
    /\ Finish(ErrorResult(<< "documents.get failed" >>))
    /\ calls' = Answered(calls, "error")
    /\ UNCHANGED <<args, doc, doc0>>

\* The first documents.get answers without data.
FirstGetEmpty ==
    /\ pc = "fetching"
    /\ Finish(ErrorResult(<< "Failed to fetch document" >>))
    /\ calls' = Answered(calls, "nodata")
    /\ UNCHANGED <<args, doc, doc0>>

\* The first documents.get answers; the target is resolved and the
\* instructions are compiled, but a check fails.
CompileFails ==
    /\ pc = "fetching"
    /\ LET out == ResolveAndCompile(args, Snapshot(doc))
       IN  /\ ~out.ok
           /\ Finish(ErrorResult(out.message))
    /\ calls' = Answered(calls, "ok")
    /\ UNCHANGED <<args, doc, doc0>>

\* The first documents.get answers; the target is resolved, the
\* instructions are compiled and documents.batchUpdate is called with them.
CompileAndSubmit ==
    /\ pc = "fetching"
    /\ LET data == Snapshot(doc)
           out == ResolveAndCompile(args, data)
       IN  /\ out.ok
           /\ snapshot' = data
           /\ requests' = out.requests
           /\ currentIndex' = out.currentIndex
           /\ calls' = Append(Answered(calls, "ok"),
                               BatchUpdateCall(calls[1].documentId,
                                               out.requests))
    /\ pc' = "updating"
    /\ UNCHANGED <<args, doc, doc0, result>>

\* documents.batchUpdate fails: the service rejects the batch (it applies
\* none of it) or cannot be reached.
BatchUpdateFails ==
    /\ pc = "updating"
    /\ Finish(ErrorResult(<< "documents.batchUpdate failed" >>))
    /\ calls' = Answered(calls, "error")
    /\ UNCHANGED <<args, doc, doc0>>

\* documents.batchUpdate applies the batch; the second documents.get is
\* called.
BatchUpdateApplied ==
    /\ pc = "updating"
    /\ ApplyBatch(doc, requests).ok
    /\ doc' = ApplyBatch(doc, requests).cells
    /\ calls' = Append(Answered(calls, "ok"), GetCall(calls[1].documentId))
    /\ pc' = "refetching"
    /\ UNCHANGED <<args, doc0, snapshot, requests, currentIndex, result>>

\* SecondGetFails that answers with the structure fetched first instead.
SecondGetFailsRecovered ==
    /\ pc = "refetching"
    /\ Finish(SuccessResult(args,
                            ResolveAndCompile(args, snapshot),
                            buildUpdateSummary(requests),
                            snapshot, snapshot))
    /\ calls' = Answered(calls, "error")
    /\ UNCHANGED <<args, doc, doc0>>

\* The second documents.get fails.
SecondGetFails ==
    /\ pc = "refetching"
    /\ Finish(ErrorResult(<< "documents.get failed" >>))
    /\ calls' = Answered(calls, "error")
    /\ UNCHANGED <<args, doc, doc0>>

\* The second documents.get answers and the handler returns.
Return ==
    /\ pc = "refetching"
    /\ Finish(SuccessResult(args,
                            ResolveAndCompile(args, snapshot),
                            buildUpdateSummary(requests),
                            snapshot, Snapshot(doc)))
    /\ calls' = Answered(calls, "ok")
    /\ UNCHANGED <<args, doc, doc0>>

Next ==
    \/ Invoke
    \/ FirstGetFails
    \/ FirstGetEmpty
    \/ CompileFails
    \/ CompileAndSubmit
    \/ BatchUpdateFails
    \/ BatchUpdateApplied
    \/ SecondGetFails
    \/ Return
    \/ NextCall

Spec == Init /\ [][Next]_vars

(***************************************************************************)
(* The tool from its boundary on.  index.ts registers tool.inputSchema,    *)
(* the union of jsonPathOperationSchema and the schema of the raw form,    *)
(* and the server hands the handler what the schema parsed out of the      *)
(* caller's arguments: the first member of the union that accepts them,    *)
(* with the keys that member does not declare stripped; arguments no       *)
(* member accepts never reach the handler.  Here `args` holds the          *)
(* arguments as the caller sent them.                                      *)
(***************************************************************************)
Strip(a, keys) == [k \in (DOMAIN a) \cap keys |-> a[k]]

Rejected == [ok |-> FALSE]

Parsed(data) == [ok |-> TRUE, data |-> data]

\* contentItemSchema: a heading's level is between 1 and 6.
contentItemSchema(item) ==
    item.type = "heading" => (MinLevel <= item.level /\ item.level <= MaxLevel)

JsonPathKeys ==
    { "doc_id_or_url", "operation", "target", "content", "textStyle",
      "paragraphStyle" }

\* jsonPathOperationSchema that takes any string for an operation.
jsonPathOperationSchemaAnyTag(a) ==
    IF /\ {"doc_id_or_url", "operation", "target"} \subseteq DOMAIN a
       /\ "content" \in DOMAIN a =>
             \A k \in 1..Len(a.content) : contentItemSchema(a.content[k])
    THEN Parsed(Strip(a, JsonPathKeys))
    ELSE Rejected

jsonPathOperationSchema(a) ==
    IF /\ {"doc_id_or_url", "operation", "target"} \subseteq DOMAIN a
       /\ a.operation \in Operations
       /\ "content" \in DOMAIN a =>
             \A k \in 1..Len(a.content) : contentItemSchema(a.content[k])
    THEN Parsed(Strip(a, JsonPathKeys))
    ELSE Rejected

RawKeys == { "doc_id_or_url", "requests" }

rawRequestsSchema(a) ==
    IF RawKeys \subseteq DOMAIN a THEN Parsed(Strip(a, RawKeys)) ELSE Rejected

inputSchema(a) ==
    IF jsonPathOperationSchema(a).ok THEN jsonPathOperationSchema(a)
    ELSE rawRequestsSchema(a)

\* updateDocContent that submits whatever array it is given.
BeginUpdateDocContentUnchecked(a) ==
    IF extractDocId(a.doc_id_or_url) = None
    THEN /\ Finish(ErrorResult(<< "Invalid document ID or URL" >>))
         /\ calls' = <<>>
    ELSE /\ calls' = << BatchUpdateCall(extractDocId(a.doc_id_or_url),
                                        a.requests) >>
         /\ pc' = "rawUpdating"
         /\ requests' = a.requests
         /\ result' = None
         /\ snapshot' = None
         /\ currentIndex' = 0

\* updateDocContent up to documents.batchUpdate.
BeginUpdateDocContent(a) ==
    IF extractDocId(a.doc_id_or_url) = None
    THEN /\ Finish(ErrorResult(<< "Invalid document ID or URL" >>))
         /\ calls' = <<>>
    ELSE IF Len(a.requests) = 0
    THEN /\ Finish(ErrorResult(<< "No update requests provided" >>))
         /\ calls' = <<>>
    ELSE /\ calls' = << BatchUpdateCall(extractDocId(a.doc_id_or_url),
                                        a.requests) >>
         /\ pc' = "rawUpdating"
         /\ requests' = a.requests
         /\ result' = None
         /\ snapshot' = None
         /\ currentIndex' = 0

\* handler: the JSONPath form when operation and target are there, else the
\* raw form when requests is there, else an error.
handler(a) ==
    IF "operation" \in DOMAIN a /\ "target" \in DOMAIN a
    THEN BeginJsonPathOperation(a)
    ELSE IF "requests" \in DOMAIN a
    THEN BeginUpdateDocContent(a)
    ELSE /\ Finish(ErrorResult(
                << "Invalid arguments: must provide either operation/target or requests" >>))
         /\ calls' = <<>>

RawSuccessResult(summary) ==
    [content |->
        << [type |-> "text",
            text |-> [head |-> "Document updated successfully.",
                      summary |-> summary]] >>]

\* What updateDocContent throws for an error of documents.batchUpdate,
\* by what the error's message includes.
RawFailureMessage(includes) ==
    IF includes = "Invalid requests"
    THEN << "Invalid update request. Make sure you're using valid Google Docs API request objects. Error:",
            includes >>
    ELSE IF includes = "Invalid range"
    THEN << "Invalid range in update request. Ensure the startIndex and endIndex are within the document bounds. Error:",
            includes >>
    ELSE << "Failed to update document:", includes >>

ServiceErrors == { "Invalid requests", "Invalid range", "unavailable" }

\* What callers send: the JSONPath form, the raw form, both at once, neither,
\* and operation tags the schema does not list.
OperationTags == Operations \cup { "append", "" }

ToolTargets == { ContentPath(0), ContentPath(1), AllContentPath }

FullPayload ==
    [content |-> SampleContent, textStyle |-> SampleTextStyle,
     paragraphStyle |-> SampleParagraphStyle]

RawRequestLists ==
    { <<>>,
      << InsertTextRequest(1, << "X", NL >>) >>,
      << DeleteRequest(1, 2), InsertTextRequest(1, << "Z", NL >>) >>,
      << InsertTextRequest(2, << "X" >>), DeleteRequest(90, 95) >> }

ToolInputs ==
    { BaseArgs(op, t) @@ x @@ r :
        op \in OperationTags, t \in ToolTargets,
        x \in { EmptyObject, FullPayload },
        r \in Opt("requests", RawRequestLists) }
    \cup { [doc_id_or_url |-> ref, requests |-> q] :
             ref \in DocRefs, q \in RawRequestLists }
    \cup { [doc_id_or_url |-> GoodId, operation |-> op] @@ r :
             op \in OperationTags, r \in Opt("requests", RawRequestLists) }
    \cup { [doc_id_or_url |-> GoodId, target |-> t] @@ r :
             t \in ToolTargets, r \in Opt("requests", RawRequestLists) }
    \cup { [requests |-> q] : q \in RawRequestLists }
    \cup { BaseArgs("insertAfter", ContentPath(1))
             @@ [content |-> << Heading(MaxLevel + 1, << "H" >>) >>] }

\* The server parses the caller's arguments and, when the schema accepts
\* them, calls the handler, which runs up to its first call of the service.
Call ==
    /\ pc = "idle"
    /\ \E a \in ToolInputs :
          /\ args' = a
          /\ IF inputSchema(a).ok
             THEN handler(inputSchema(a).data)
             ELSE /\ pc' = "rejected"
                  /\ result' = None
                  /\ calls' = <<>>
                  /\ snapshot' = None
                  /\ requests' = <<>>
                  /\ currentIndex' = 0
    /\ UNCHANGED <<doc, doc0>>

\* updateDocContent: documents.batchUpdate fails; the error is thrown on
\* under a new message.
RawBatchUpdateFails ==
    /\ pc = "rawUpdating"
    /\ \E e \in ServiceErrors : Finish(ErrorResult(RawFailureMessage(e)))
    /\ calls' = Answered(calls, "error")
    /\ UNCHANGED <<args, doc, doc0>>

\* updateDocContent: documents.batchUpdate applies the batch and the
\* handler returns the summary.
RawBatchUpdateApplied ==
    /\ pc = "rawUpdating"
    /\ ApplyBatch(doc, requests).ok
    /\ doc' = ApplyBatch(doc, requests).cells
    /\ Finish(RawSuccessResult(buildUpdateSummary(requests)))
    /\ calls' = Answered(calls, "ok")
    /\ UNCHANGED <<args, doc0>>

NextTool ==
    \/ Call
    \/ FirstGetFails
    \/ FirstGetEmpty
    \/ CompileFails
    \/ CompileAndSubmit
    \/ BatchUpdateFails
    \/ BatchUpdateApplied
    \/ SecondGetFails
    \/ Return
    \/ RawBatchUpdateFails
    \/ RawBatchUpdateApplied
    \/ NextCall

SpecTool == Init /\ [][NextTool]_vars

(***************************************************************************)
(* Reading an instruction list.                                            *)
(***************************************************************************)
IsInsert(r) == "insertText" \in DOMAIN r
IsDelete(r) == "deleteContentRange" \in DOMAIN r
IsParagraphStyle(r) == "updateParagraphStyle" \in DOMAIN r
IsTextStyle(r) == "updateTextStyle" \in DOMAIN r
IsBullets(r) == "createParagraphBullets" \in DOMAIN r

RangeOf(r) ==
    CASE IsDelete(r) -> r.deleteContentRange.range
      [] IsParagraphStyle(r) -> r.updateParagraphStyle.range
      [] IsTextStyle(r) -> r.updateTextStyle.range
      [] IsBullets(r) -> r.createParagraphBullets.range

InsertsOf(reqs) == SelectSeq(reqs, IsInsert)

\* The texts a content list asks to insert, in content order, bullet list
\* items one by one.
RECURSIVE ItemTexts(_)
ItemTexts(content) ==
    IF content = <<>> THEN <<>>
    ELSE (IF Head(content).type = "bulletList" THEN Head(content).items
          ELSE << Head(content).text >>) \o ItemTexts(Tail(content))

\* The index of the insertText that most nearly precedes position p.
LastInsertBefore(reqs, p) ==
    CHOOSE j \in 1..(p - 1) :
        /\ IsInsert(reqs[j])
        /\ \A i \in (j + 1)..(p - 1) : ~IsInsert(reqs[i])

\* How many instructions the items before position c of a content list emit.
RECURSIVE RequestsBefore(_, _)
RequestsBefore(content, c) ==
    IF c <= 1 THEN 0
    ELSE RequestsBefore(content, c - 1) +
         (CASE content[c - 1].type = "heading" -> 2
            [] content[c - 1].type = "paragraph" -> 1
            [] content[c - 1].type = "bulletList" -> 3 * Len(content[c - 1].items))

ExampleContent ==
    << Heading(2, <<"H">>), Paragraph(<<"P">>),
       BulletList(<< <<"A">>, <<"B">> >>) >>

(***************************************************************************)
(* C1. Cursor correctness: the k-th insertText of generateRequestsFromContent *)
(* carries the k-th text of the content followed by a newline, at the      *)
(* anchor plus the lengths (newline included) of the texts inserted before *)
(* it; the cursor ends after the last one. [heading(2,"H"), paragraph("P"),*)
(* bulletList(["A","B"])] at anchor 10 inserts at 10, 12, 14, 16, ends at  *)
(* 18, and the heading's style instruction spans [10,12).                  *)
(***************************************************************************)
C1_CursorCorrect ==
    pc = "generated" =>
        LET ins == InsertsOf(requests)
            texts == ItemTexts(args.content)
            a == args.startIndex
        IN  /\ Len(ins) = Len(texts)
            /\ \A k \in 1..Len(ins) :
                  /\ ins[k].insertText.text = texts[k] \o <<NL>>
                  /\ ins[k].insertText.location.index =
                        a + SumLen(SubSeq(texts, 1, k - 1)) + (k - 1)
            /\ currentIndex = a + SumLen(texts) + Len(texts)
            /\ (args.content = ExampleContent /\ a = 10) =>
                  /\ [k \in 1..Len(ins) |-> ins[k].insertText.location.index]
                        = <<10, 12, 14, 16>>
                  /\ currentIndex = 18
                  /\ IsParagraphStyle(requests[2])
                  /\ RangeOf(requests[2]) = [startIndex |-> 10, endIndex |-> 12]

C1_Witness ==
    /\ pc = "generated"
    /\ args.content = ExampleContent
    /\ args.startIndex = 10
    /\ Len(InsertsOf(requests)) = 4

(***************************************************************************)
(* C2. Every updateParagraphStyle and createParagraphBullets instruction   *)
(* of the generator ranges over exactly the span of the insertText that    *)
(* precedes it: from that insert's index to that index plus the length of  *)
(* the inserted text; a heading's style instruction sets HEADING_{level}   *)
(* under the mask "namedStyleType"; consecutive inserted spans are         *)
(* contiguous.                                                             *)
(***************************************************************************)
C2_StyleSpansInsert ==
    pc = "generated" =>
        LET ins == InsertsOf(requests)
        IN  /\ \A p \in 1..Len(requests) :
                  ~IsInsert(requests[p]) =>
                      /\ IsParagraphStyle(requests[p]) \/ IsBullets(requests[p])
                      /\ \E j \in 1..(p - 1) : IsInsert(requests[j])
                      /\ LET it == requests[LastInsertBefore(requests, p)].insertText
                         IN  RangeOf(requests[p]) =
                               [startIndex |-> it.location.index,
                                endIndex |-> it.location.index + Len(it.text)]
            /\ \A c \in 1..Len(args.content) :
                  args.content[c].type = "heading" =>
                      LET p == RequestsBefore(args.content, c) + 1
                      IN  /\ p + 1 <= Len(requests)
                          /\ IsInsert(requests[p])
                          /\ IsParagraphStyle(requests[p + 1])
                          /\ requests[p + 1].updateParagraphStyle.fields
                                = << "namedStyleType" >>
                          /\ requests[p + 1].updateParagraphStyle.paragraphStyle
                                = [namedStyleType |->
                                     HeadingStyleName(args.content[c].level)]
                          /\ (args.content[c].level = 2 =>
                                requests[p + 1].updateParagraphStyle
                                    .paragraphStyle.namedStyleType = "HEADING_2")
            /\ \A k \in 1..(Len(ins) - 1) :
                  ins[k + 1].insertText.location.index =
                      ins[k].insertText.location.index + Len(ins[k].insertText.text)

C2_Witness ==
    /\ pc = "generated"
    /\ \E p \in 1..Len(requests) : IsBullets(requests[p])
    /\ \E p \in 1..Len(requests) :
          /\ IsParagraphStyle(requests[p])
          /\ requests[p].updateParagraphStyle.paragraphStyle.namedStyleType
                = "HEADING_6"
    /\ Len(InsertsOf(requests)) >= 3

(***************************************************************************)
(* Reading the state of an invocation.                                     *)
(***************************************************************************)
Methods(log) == [k \in 1..Len(log) |-> log[k].method]

Submitted(log) ==
    \E k \in 1..Len(log) : log[k].method = "documents.batchUpdate"

\* The first documents.get of the invocation has answered with the document.
Fetched == pc # "idle" /\ Len(calls) >= 1 /\ calls[1].reply = "ok"

\* The invocation threw before it called documents.batchUpdate.
CompileFailed == pc = "done" /\ Len(calls) = 1 /\ calls[1].reply = "ok"

\* The nodes the target path selects in the document as first fetched.
Matches == JSONPath(args.target, Snapshot(doc0))

Message(r) == r.content[1].text[2]

Carries(node, p) == p \in DOMAIN node

InsertOperations == {"insertAfter", "insertBefore", "replace"}
RangeOperations == {"updateTextStyle", "updateParagraphStyle", "delete", "replace"}

PayloadPresent(a) ==
    CASE a.operation = "updateTextStyle" -> "textStyle" \in DOMAIN a
      [] a.operation = "updateParagraphStyle" -> "paragraphStyle" \in DOMAIN a
      [] a.operation = "delete" -> TRUE
      [] OTHER -> "content" \in DOMAIN a /\ a.content # <<>>

IndicesPresent(a, node) ==
    CASE a.operation = "insertAfter" -> Carries(node, "endIndex")
      [] a.operation = "insertBefore" -> Carries(node, "startIndex")
      [] OTHER -> Carries(node, "startIndex") /\ Carries(node, "endIndex")

\* The anchor of an insert-family operation on a target.
AnchorOf(a, node) ==
    IF a.operation = "insertAfter" THEN node.endIndex ELSE node.startIndex

\* The text the inserts of a content list add, newlines included.
InsertedText(content) ==
    Flatten([k \in 1..Len(ItemTexts(content)) |-> ItemTexts(content)[k] \o <<NL>>])

(***************************************************************************)
(* C3. Chained index shift: with the compiled list of insertAfter,         *)
(* insertBefore or replace applied instruction by instruction to the       *)
(* document it was compiled from, every style or bullet instruction, at    *)
(* the moment it is applied, ranges over exactly the characters its own    *)
(* item's insertText put there and over no character that was there        *)
(* before; and once the batch is through, the document is the old text up  *)
(* to the anchor, the inserted text, and the old text from the anchor on   *)
(* (for replace: from the end of the deleted span on).                     *)
(***************************************************************************)
C3_ChainedIndexShift ==
    (pc = "updating" /\ args.operation \in InsertOperations) =>
        /\ \A p \in 1..Len(requests) :
              LET before == ApplyFrom(doc, SubSeq(requests, 1, p - 1), 1)
              IN  (before.ok /\ (IsParagraphStyle(requests[p]) \/ IsBullets(requests[p]))) =>
                      LET range == RangeOf(requests[p])
                          j == LastInsertBefore(requests, p)
                      IN  /\ InRange(before.cells, range)
                          /\ \A i \in range.startIndex..(range.endIndex - 1) :
                                before.cells[i].by = j
                          /\ \A i \in 1..Len(before.cells) :
                                before.cells[i].by = j =>
                                    /\ range.startIndex <= i
                                    /\ i < range.endIndex
        /\ ApplyBatch(doc, requests).ok =>
              LET node == Matches[1]
                  a == AnchorOf(args, node)
                  resume == IF args.operation = "replace" THEN node.endIndex ELSE a
                  old == TextOf(doc)
              IN  TextOf(ApplyBatch(doc, requests).cells) =
                      SubSeq(old, 1, a - 1) \o InsertedText(args.content)
                      \o SubSeq(old, resume, Len(old))

C3_Witness ==
    /\ pc = "updating"
    /\ args.operation = "replace"
    /\ ApplyBatch(doc, requests).ok
    /\ \E p \in 1..Len(requests) : IsBullets(requests[p])
    /\ \E p \in 1..Len(requests) :
          /\ IsParagraphStyle(requests[p])
          /\ RangeOf(requests[p]).startIndex > Matches[1].startIndex

(***************************************************************************)
(* C4. Locator uniqueness: a path that selects no node fails the edit,     *)
(* a path that selects several fails it too, and in both cases nothing is  *)
(* submitted; instructions are compiled only for a path that selects one   *)
(* node, and from that node's indices.                                     *)
(***************************************************************************)
C4_LocatorUnique ==
    Fetched =>
        /\ Len(Matches) = 0 =>
              /\ CompileFailed
              /\ IsError(result)
              /\ Message(result)[1] = "No element found at JSONPath:"
        /\ Len(Matches) > 1 =>
              /\ CompileFailed
              /\ IsError(result)
              /\ Message(result)[1] = "Multiple elements found at JSONPath:"
        /\ Submitted(calls) =>
              /\ Len(Matches) = 1
              /\ LET reqs == calls[2].requests
                     node == Matches[1]
                 IN  IF args.operation \in RangeOperations
                     THEN RangeOf(reqs[1]) =
                            [startIndex |-> node.startIndex,
                             endIndex |-> node.endIndex]
                     ELSE reqs # <<>> =>
                            reqs[1].insertText.location.index = AnchorOf(args, node)

C4_Witness ==
    /\ CompileFailed
    /\ Len(Matches) > 1
    /\ args.operation = "insertAfter"
    /\ PayloadPresent(args)

(***************************************************************************)
(* C5. No partial commit: when an up-front check of the invocation fails   *)
(* (the document reference is invalid, the path selects no node or         *)
(* several, the payload the operation needs is missing, the target lacks   *)
(* an index the operation needs), documents.batchUpdate is never called.   *)
(***************************************************************************)
UpFrontCheckFails ==
    \/ extractDocId(args.doc_id_or_url) = None
    \/ Len(Matches) # 1
    \/ ~PayloadPresent(args)
    \/ ~IndicesPresent(args, Matches[1])

C5_NoPartialCommit ==
    (pc # "idle" /\ UpFrontCheckFails) =>
        /\ ~Submitted(calls)
        /\ doc = doc0
        /\ pc = "done" => IsError(result)

C5_Witness ==
    /\ pc = "done"
    /\ Fetched
    /\ Len(Matches) = 1
    /\ args.operation = "replace"
    /\ PayloadPresent(args)
    /\ ~IndicesPresent(args, Matches[1])

(***************************************************************************)
(* C6. Call sequence: an invocation calls documents.get, then              *)
(* documents.batchUpdate with the whole list compiled from that first      *)
(* answer, then documents.get again, each once; what a successful          *)
(* invocation returns is the structure of the second answer; no snapshot   *)
(* outlives the invocation.                                                *)
(***************************************************************************)
CallOrder == << "documents.get", "documents.batchUpdate", "documents.get" >>

C6_CallSequence ==
    /\ Len(calls) <= Len(CallOrder)
    /\ Methods(calls) = SubSeq(CallOrder, 1, Len(calls))
    /\ pc \in {"updating", "refetching"} =>
          /\ snapshot = Snapshot(doc0)
          /\ requests = ResolveAndCompile(args, snapshot).requests
          /\ calls[2].requests = requests
    /\ pc \in {"idle", "done"} => snapshot = None /\ requests = <<>>
    /\ IsSuccess(result) =>
          /\ pc = "done"
          /\ Methods(calls) = CallOrder
          /\ \A k \in 1..Len(calls) : calls[k].reply = "ok"
          /\ doc = ApplyBatch(doc0, calls[2].requests).cells
          /\ result.content[1].text.structure = Snapshot(doc)

C6_Witness ==
    /\ IsSuccess(result)
    /\ Snapshot(doc) # Snapshot(doc0)

(***************************************************************************)
(* C7. replace on a target [s,e) with content emits deleteContentRange     *)
(* {s,e} first and then exactly what generateRequestsFromContent gives for *)
(* the content anchored at s; on [20,30) with [paragraph("X")] that is     *)
(* deleteContentRange{20,30}, insertText{20,"X\n"}.                        *)
(***************************************************************************)
C7_ReplaceShape ==
    (pc = "updating" /\ args.operation = "replace") =>
        LET s == Matches[1].startIndex
            e == Matches[1].endIndex
        IN  /\ requests # <<>>
            /\ requests[1] =
                  [deleteContentRange |->
                      [range |-> [startIndex |-> s, endIndex |-> e]]]
            /\ Tail(requests) = generateRequestsFromContent(args.content, s).requests
            /\ \A p \in 2..Len(requests) : ~IsDelete(requests[p])
            /\ (s = 20 /\ e = 30 /\ args.content = << Paragraph(<<"X">>) >>) =>
                  requests =
                      << [deleteContentRange |->
                            [range |-> [startIndex |-> 20, endIndex |-> 30]]],
                         [insertText |->
                            [location |-> [index |-> 20],
                             text |-> << "X", NL >>]] >>

C7_Witness ==
    /\ pc = "updating"
    /\ args.operation = "replace"
    /\ Matches[1].startIndex = 20
    /\ Matches[1].endIndex = 30
    /\ args.content = << Paragraph(<<"X">>) >>
    /\ Len(requests) = 2

(***************************************************************************)
(* C8. delete on a target carrying startIndex s and endIndex e emits the   *)
(* one instruction deleteContentRange{s,e}, whatever content, textStyle    *)
(* or paragraphStyle comes with it.                                        *)
(***************************************************************************)
C8_DeleteShape ==
    (pc = "updating" /\ args.operation = "delete") =>
        requests =
            << [deleteContentRange |->
                  [range |-> [startIndex |-> Matches[1].startIndex,
                              endIndex |-> Matches[1].endIndex]]] >>

C8_Witness ==
    /\ pc = "updating"
    /\ args.operation = "delete"
    /\ {"content", "textStyle", "paragraphStyle"} \subseteq DOMAIN args
    /\ requests =
          << [deleteContentRange |->
                [range |-> [startIndex |-> 50, endIndex |-> 80]]] >>

(***************************************************************************)
(* C9. Field-mask sparsity: the names in the mask of an updateTextStyle    *)
(* or updateParagraphStyle instruction are exactly the attributes present  *)
(* in the patch (headingLevel under its field name namedStyleType), each   *)
(* once, and the style payload carries exactly those, with the patch's     *)
(* values: a present attribute with a falsy value is in the mask, an       *)
(* omitted one is not; fontSize and the indents carry the unit PT.         *)
(***************************************************************************)
MaskNames(mask) == { mask[k] : k \in { i \in 1..Len(mask) : i % 2 = 1 } }

WellJoined(mask, n) ==
    /\ Len(mask) = (IF n = 0 THEN 0 ELSE 2 * n - 1)
    /\ \A k \in 1..Len(mask) : (k % 2 = 0) <=> (mask[k] = ",")

FieldOf(attribute) ==
    IF attribute = "headingLevel" THEN "namedStyleType" ELSE attribute

C9_FieldMaskSparse ==
    /\ (pc = "updating" /\ args.operation = "updateTextStyle") =>
          LET r == requests[1].updateTextStyle
              patch == args.textStyle
              present == DOMAIN patch
          IN  /\ Len(requests) = 1
              /\ WellJoined(r.fields, Cardinality(present))
              /\ MaskNames(r.fields) = present
              /\ DOMAIN r.textStyle = present
              /\ \A a \in present \cap {"bold", "italic", "underline", "strikethrough"} :
                    r.textStyle[a] = patch[a]
              /\ "fontSize" \in present =>
                    r.textStyle.fontSize =
                        [magnitude |-> patch.fontSize, unit |-> "PT"]
              /\ \A a \in present \cap {"foregroundColor", "backgroundColor"} :
                    r.textStyle[a] = [color |-> [rgbColor |-> patch[a]]]
              /\ "link" \in present => r.textStyle.link = [url |-> patch.link.url]
              /\ (present = {"bold"} /\ patch.bold) => r.fields = << "bold" >>
    /\ (pc = "updating" /\ args.operation = "updateParagraphStyle") =>
          LET r == requests[1].updateParagraphStyle
              patch == args.paragraphStyle
              present == DOMAIN patch
              named == { FieldOf(a) : a \in present }
          IN  /\ Len(requests) = 1
              /\ WellJoined(r.fields, Cardinality(present))
              /\ MaskNames(r.fields) = named
              /\ DOMAIN r.paragraphStyle = named
              /\ \A a \in present \cap {"headingLevel", "alignment", "direction", "lineSpacing"} :
                    r.paragraphStyle[FieldOf(a)] = patch[a]
              /\ \A a \in present \cap {"indentStart", "indentEnd", "indentFirstLine"} :
                    r.paragraphStyle[a] = [magnitude |-> patch[a], unit |-> "PT"]

C9_Witness ==
    /\ pc = "updating"
    /\ args.operation = "updateTextStyle"
    /\ DOMAIN args.textStyle = {"bold", "fontSize", "link"}
    /\ args.textStyle.bold = FALSE
    /\ args.textStyle.fontSize = 0
    /\ requests[1].updateTextStyle.fields = << "bold", ",", "fontSize", ",", "link" >>

(***************************************************************************)
(* C10. Rangeable target: with its payload present, updateTextStyle,       *)
(* updateParagraphStyle, delete and replace fail on a target that lacks    *)
(* startIndex or endIndex and emit an instruction over                     *)
(* [startIndex,endIndex) on a target that carries both; insertAfter needs  *)
(* endIndex only and insertBefore startIndex only, and each fails when its *)
(* own index is absent.                                                    *)
(***************************************************************************)
C10_Rangeable ==
    (Fetched /\ Len(Matches) = 1) =>
        LET node == Matches[1]
            op == args.operation
        IN  /\ ~IndicesPresent(args, node) =>
                  /\ CompileFailed
                  /\ IsError(result)
                  /\ PayloadPresent(args) =>
                        Message(result)[1] =
                            (CASE op = "insertAfter" ->
                                    "Target element does not have an endIndex"
                               [] op = "insertBefore" ->
                                    "Target element does not have a startIndex"
                               [] OTHER ->
                                    "Target element must have startIndex and endIndex for")
            /\ (IndicesPresent(args, node) /\ PayloadPresent(args)) =>
                  /\ Submitted(calls)
                  /\ IF op \in RangeOperations
                     THEN RangeOf(calls[2].requests[1]) =
                            [startIndex |-> node.startIndex,
                             endIndex |-> node.endIndex]
                     ELSE calls[2].requests # <<>> =>
                            calls[2].requests[1].insertText.location.index =
                                (IF op = "insertAfter" THEN node.endIndex
                                 ELSE node.startIndex)

C10_Witness ==
    /\ pc = "updating"
    /\ args.operation = "insertAfter"
    /\ Len(Matches) = 1
    /\ ~Carries(Matches[1], "startIndex")
    /\ requests # <<>>

(***************************************************************************)
(* C11. Missing required payload is a failure: updateTextStyle without     *)
(* textStyle, updateParagraphStyle without paragraphStyle, and replace,    *)
(* insertAfter, insertBefore with content absent or empty never compile an *)
(* instruction and never call documents.batchUpdate; the invocation ends   *)
(* with an error, and once the target is resolved to one node the error is *)
(* the one that names the missing payload.                                 *)
(***************************************************************************)
NamesMissingPayload(a, message) ==
    CASE a.operation = "updateTextStyle" ->
            message[1] = "updateTextStyle operation requires textStyle to be provided"
      [] a.operation = "updateParagraphStyle" ->
            message[1] = "updateParagraphStyle operation requires paragraphStyle to be provided"
      [] a.operation = "replace" ->
            message[1] = "Replace operation requires content to be provided"
      [] OTHER ->
            /\ message[1] = a.operation
            /\ message[2] = "operation requires content to be provided"

C11_MissingPayloadFails ==
    (pc # "idle" /\ ~PayloadPresent(args)) =>
        /\ ~Submitted(calls)
        /\ requests = <<>>
        /\ doc = doc0
        /\ pc \in {"fetching", "done"}
        /\ pc = "done" => IsError(result)
        /\ (Fetched /\ Len(Matches) = 1) =>
              /\ CompileFailed
              /\ NamesMissingPayload(args, Message(result))

C11_Witness ==
    /\ CompileFailed
    /\ Len(Matches) = 1
    /\ args.operation = "insertBefore"
    /\ "content" \in DOMAIN args
    /\ args.content = <<>>
    /\ IsError(result)

(***************************************************************************)
(* Reading what the caller sent.                                           *)
(***************************************************************************)
UnknownTag(a) == "operation" \in DOMAIN a /\ a.operation \notin Operations

CarriesRequests(a) == "requests" \in DOMAIN a

GetIssued(log) == \E k \in 1..Len(log) : log[k].method = "documents.get"

\* The handler was never called: the server refused the arguments.
RefusedAtBoundary ==
    /\ pc = "rejected"
    /\ calls = <<>>
    /\ requests = <<>>
    /\ result = None
    /\ doc = doc0

OnlyKind(r, kind) == DOMAIN r = { kind }

InsertsLine(r, text) ==
    /\ OnlyKind(r, "insertText")
    /\ r.insertText.text = text \o << NL >>

SetsNamedStyle(r, name) ==
    /\ OnlyKind(r, "updateParagraphStyle")
    /\ r.updateParagraphStyle.paragraphStyle = [namedStyleType |-> name]

C13_ItemShape ==
    pc = "generated" =>
        LET content == args.content
        IN  /\ Len(requests) = RequestsBefore(content, Len(content) + 1)
            /\ \A c \in 1..Len(content) :
                  LET off == RequestsBefore(content, c)
                      item == content[c]
                  IN  CASE item.type = "heading" ->
                              /\ InsertsLine(requests[off + 1], item.text)
                              /\ SetsNamedStyle(requests[off + 2],
                                                HeadingStyleName(item.level))
                        [] item.type = "paragraph" ->
                              InsertsLine(requests[off + 1], item.text)
                        [] item.type = "bulletList" ->
                              \A k \in 1..Len(item.items) :
                                  LET at == off + 3 * (k - 1)
                                  IN  /\ InsertsLine(requests[at + 1], item.items[k])
                                      /\ SetsNamedStyle(requests[at + 2], "NORMAL_TEXT")
                                      /\ OnlyKind(requests[at + 3],
                                                  "createParagraphBullets")
                                      /\ RangeOf(requests[at + 2])
                                            = RangeOf(requests[at + 3])

C13_Witness ==
    /\ pc = "generated"
    /\ Len(args.content) = 3
    /\ args.content[1].type = "bulletList"
    /\ Len(args.content[1].items) = 2
    /\ args.content[2].type = "paragraph"
    /\ args.content[3].type = "heading"
    /\ Len(requests) = 9

(***************************************************************************)
(* C14. No retries, no silent recovery: an invocation calls                *)
(* documents.batchUpdate at most once and documents.get at most twice,     *)
(* once before and once after the batch; a call that fails is the last     *)
(* call of the invocation, which then ends with an error result carrying   *)
(* a message; a success result is returned only when every call was        *)
(* answered.                                                               *)
(***************************************************************************)
Failed(call) == call.reply \in { "error", "nodata" }

CallsOf(log, method) == { k \in 1..Len(log) : log[k].method = method }

C14_NoRetry ==
    /\ Cardinality(CallsOf(calls, "documents.batchUpdate")) <= 1
    /\ CallsOf(calls, "documents.get") \subseteq { 1, 3 }
    /\ Len(calls) <= 3
    /\ \A k \in 1..Len(calls) :
          Failed(calls[k]) =>
              /\ k = Len(calls)
              /\ pc = "done"
              /\ IsError(result)
              /\ result.isError = TRUE
              /\ Message(result) # <<>>
    /\ IsSuccess(result) => \A k \in 1..Len(calls) : calls[k].reply = "ok"

C14_Witness ==
    /\ pc = "done"
    /\ Len(calls) = 3
    /\ Failed(calls[3])
    /\ calls[2].reply = "ok"
    /\ doc # doc0
    /\ IsError(result)

(***************************************************************************)
(* The Markdown renderer of the document tools (convertDocToMarkdown and   *)
(* the functions it calls).  A string is the sequence of its characters.   *)
(***************************************************************************)
Flag(style, name) == name \in DOMAIN style /\ style[name] = TRUE

\* style.link?.url
LinkUrl(style) ==
    IF "link" \in DOMAIN style /\ "url" \in DOMAIN style.link
    THEN style.link.url ELSE <<>>

\* A font family is a sequence of pieces of its name, "Courier" and "Mono"
\* standing for themselves; includes(word) finds the piece.
Includes(family, word) == \E k \in 1..Len(family) : family[k] = word

\* style.weightedFontFamily?.fontFamily?.includes("Courier") || ...("Mono")
Monospace(style) ==
    /\ "weightedFontFamily" \in DOMAIN style
    /\ "fontFamily" \in DOMAIN style.weightedFontFamily
    /\ \/ Includes(style.weightedFontFamily.fontFamily, "Courier")
       \/ Includes(style.weightedFontFamily.fontFamily, "Mono")

\* The backquote character (U+0060).
Backquote == "BQ"

Wrap(open, formatted, close) == open \o formatted \o close

EmphasisWrap(style, formatted) ==
    IF Flag(style, "bold") /\ Flag(style, "italic")
    THEN Wrap(<< "*", "*", "*" >>, formatted, << "*", "*", "*" >>)
    ELSE IF Flag(style, "bold")
    THEN Wrap(<< "*", "*" >>, formatted, << "*", "*" >>)
    ELSE IF Flag(style, "italic")
    THEN Wrap(<< "*" >>, formatted, << "*" >>)
    ELSE formatted

UnderlineWrap(style, formatted) ==
    IF Flag(style, "underline")
    THEN Wrap(<< "_", "_" >>, formatted, << "_", "_" >>) ELSE formatted

StrikethroughWrap(style, formatted) ==
    IF Flag(style, "strikethrough")
    THEN Wrap(<< "~", "~" >>, formatted, << "~", "~" >>) ELSE formatted

LinkWrap(style, formatted) ==
    IF LinkUrl(style) # <<>>
    THEN Wrap(<< "[" >>, formatted, << "]", "(" >> \o LinkUrl(style) \o << ")" >>)
    ELSE formatted

CodeWrap(style, formatted) ==
    IF Monospace(style) THEN Wrap(<< Backquote >>, formatted, << Backquote >>)
    ELSE formatted

RunContent(textRun) ==
    IF "content" \in DOMAIN textRun THEN textRun.content ELSE <<>>

\* processTextRun with the code wrap put on before the link wrap.
processTextRunCodeFirst(textRun) ==
    IF "textStyle" \notin DOMAIN textRun THEN RunContent(textRun)
    ELSE IF RunContent(textRun) = << NL >> THEN RunContent(textRun)
    ELSE LET style == textRun.textStyle
         IN  LinkWrap(style,
                CodeWrap(style,
                   StrikethroughWrap(style,
                      UnderlineWrap(style,
                         EmphasisWrap(style, RunContent(textRun))))))

processTextRun(textRun) ==
    IF "textStyle" \notin DOMAIN textRun THEN RunContent(textRun)
    ELSE IF RunContent(textRun) = << NL >> THEN RunContent(textRun)
    ELSE LET style == textRun.textStyle
         IN  CodeWrap(style,
                LinkWrap(style,
                   StrikethroughWrap(style,
                      UnderlineWrap(style,
                         EmphasisWrap(style, RunContent(textRun))))))

(***************************************************************************)
(* processTextRun on its own: Init draws a text run, the one action        *)
(* composes it.                                                            *)
(***************************************************************************)
RunTexts ==
    { <<>>, << NL >>, << "a" >>, << "a", "b", NL >>, << NL, NL >>, << " " >> }

FontFamilies ==
    { << "Courier", " New" >>, << "Roboto ", "Mono" >>, << "Arial" >>,
      << "mono" >> }

\* A link has a url, or leads to a heading of the document and has none.
Links == { [url |-> << "u" >>], [headingId |-> << "h" >>], [url |-> <<>>] }

RunStyles ==
    { b @@ i @@ u @@ s @@ l @@ f :
        b \in Opt("bold", BOOLEAN), i \in Opt("italic", {TRUE}),
        u \in Opt("underline", {TRUE}), s \in Opt("strikethrough", {TRUE}),
        l \in Opt("link", Links),
        f \in Opt("weightedFontFamily",
                  { [fontFamily |-> x] : x \in FontFamilies }
                  \cup { [weight |-> 400] }) }

TextRuns ==
    { [content |-> t] : t \in RunTexts }
    \cup { [content |-> t, textStyle |-> st] : t \in RunTexts, st \in RunStyles }
    \cup { [textStyle |-> st] : st \in { EmptyObject, [bold |-> TRUE] } }

InitRun ==
    /\ pc = "run"
    /\ args \in TextRuns
    /\ doc = <<>>
    /\ doc0 = <<>>
    /\ snapshot = None
    /\ requests = <<>>
    /\ currentIndex = 0
    /\ calls = <<>>
    /\ result = None

ComposeRun ==
    /\ pc = "run"
    /\ result' = processTextRun(args)
    /\ pc' = "composed"
    /\ UNCHANGED <<args, doc, doc0, snapshot, requests, currentIndex, calls>>

NextRun == ComposeRun

SpecRun == InitRun /\ [][NextRun]_vars

(***************************************************************************)
(* Reading a text run.                                                     *)
(***************************************************************************)
If(condition, text) == IF condition THEN text ELSE <<>>

EmphasisMark(style) ==
    IF Flag(style, "bold") /\ Flag(style, "italic") THEN << "*", "*", "*" >>
    ELSE IF Flag(style, "bold") THEN << "*", "*" >>
    ELSE IF Flag(style, "italic") THEN << "*" >>
    ELSE <<>>

\* The composed run laid out from the outside in: code, link, strikethrough,
\* underline, emphasis, the text, and the closing marks in reverse.
LaidOut(textRun, linked) ==
    LET style == textRun.textStyle
    IN  If(Monospace(style), << Backquote >>)
        \o If(linked, << "[" >>)
        \o If(Flag(style, "strikethrough"), << "~", "~" >>)
        \o If(Flag(style, "underline"), << "_", "_" >>)
        \o EmphasisMark(style)
        \o RunContent(textRun)
        \o EmphasisMark(style)
        \o If(Flag(style, "underline"), << "_", "_" >>)
        \o If(Flag(style, "strikethrough"), << "~", "~" >>)
        \o If(linked, << "]", "(" >> \o LinkUrl(style) \o << ")" >>)
        \o If(Monospace(style), << Backquote >>)

Unformatted(textRun) ==
    "textStyle" \notin DOMAIN textRun \/ RunContent(textRun) = << NL >>

(***************************************************************************)
(* C16. Style Composer: processTextRun returns the text as it is when the  *)
(* run has no style or the text is exactly a newline; otherwise the text   *)
(* is wrapped, from the inside out, in *** (bold and italic), ** (bold     *)
(* only) or * (italic only), then __ (underline), then ~~ (strikethrough), *)
(* then [..](url) when the run links to a url, then a backquote on each    *)
(* side when the font family contains "Courier" or "Mono": the code wrap   *)
(* is outermost and the link encloses the text decorations.                *)
(***************************************************************************)
C16_WrapOrder ==
    pc = "composed" =>
        IF Unformatted(args) THEN result = RunContent(args)
        ELSE result = LaidOut(args, LinkUrl(args.textStyle) # <<>>)

C16_Witness ==
    /\ pc = "composed"
    /\ ~Unformatted(args)
    /\ Flag(args.textStyle, "bold")
    /\ Flag(args.textStyle, "italic")
    /\ Flag(args.textStyle, "underline")
    /\ Flag(args.textStyle, "strikethrough")
    /\ LinkUrl(args.textStyle) # <<>>
    /\ Monospace(args.textStyle)
    /\ args.content = << "a" >>
    /\ result[1] = Backquote
    /\ result[2] = "["

(***************************************************************************)
(* processParagraph, processTable and convertDocToMarkdown.                *)
(***************************************************************************)
\* text.replace(/\n+$/, "")
RECURSIVE StripTrailingNewlines(_)
StripTrailingNewlines(text) ==
    IF text # <<>> /\ text[Len(text)] = NL
    THEN StripTrailingNewlines(SubSeq(text, 1, Len(text) - 1))
    ELSE text

WhiteSpace == { " ", NL, "\t" }

RECURSIVE TrimStart(_)
TrimStart(text) ==
    IF text # <<>> /\ Head(text) \in WhiteSpace THEN TrimStart(Tail(text))
    ELSE text

RECURSIVE TrimEnd(_)
TrimEnd(text) ==
    IF text # <<>> /\ text[Len(text)] \in WhiteSpace
    THEN TrimEnd(SubSeq(text, 1, Len(text) - 1))
    ELSE text

\* String.prototype.trim
Trim(text) == TrimEnd(TrimStart(text))

\* String.prototype.repeat
RECURSIVE Repeat(_, _)
Repeat(text, n) == IF n <= 0 THEN <<>> ELSE text \o Repeat(text, n - 1)

\* The composed runs of a paragraph, one after the other.
RECURSIVE ComposedRuns(_)
ComposedRuns(elements) ==
    IF elements = <<>> THEN <<>>
    ELSE (IF "textRun" \in DOMAIN Head(elements)
          THEN processTextRun(Head(elements).textRun) ELSE <<>>)
         \o ComposedRuns(Tail(elements))

ParagraphElements(paragraph) ==
    IF "elements" \in DOMAIN paragraph THEN paragraph.elements ELSE <<>>

\* paragraph.paragraphStyle?.namedStyleType
NamedStyleOf(paragraph) ==
    IF /\ "paragraphStyle" \in DOMAIN paragraph
       /\ "namedStyleType" \in DOMAIN paragraph.paragraphStyle
    THEN paragraph.paragraphStyle.namedStyleType
    ELSE "undefined"

HeadingPrefixes ==
    [HEADING_1 |-> Repeat(<< "#" >>, 1), HEADING_2 |-> Repeat(<< "#" >>, 2),
     HEADING_3 |-> Repeat(<< "#" >>, 3), HEADING_4 |-> Repeat(<< "#" >>, 4),
     HEADING_5 |-> Repeat(<< "#" >>, 5), HEADING_6 |-> Repeat(<< "#" >>, 6),
     TITLE |-> Repeat(<< "#" >>, 1), SUBTITLE |-> Repeat(<< "#" >>, 2)]

\* bullet.nestingLevel || 0
NestingLevel(bullet) ==
    IF "nestingLevel" \in DOMAIN bullet THEN bullet.nestingLevel ELSE 0

\* ListMarker that numbers the nested levels as well.
ListMarkerNumbered(nestingLevel) == << "1", "." >>

ListMarker(nestingLevel) ==
    IF nestingLevel = 0 THEN << "1", "." >> ELSE << "-" >>

processParagraph(paragraph) ==
    LET style == NamedStyleOf(paragraph)
        trimmedText ==
            StripTrailingNewlines(ComposedRuns(ParagraphElements(paragraph)))
    IN  IF trimmedText = <<>> THEN << NL >>
        ELSE IF style \in DOMAIN HeadingPrefixes
        THEN HeadingPrefixes[style] \o << " " >> \o trimmedText \o << NL, NL >>
        ELSE IF "bullet" \in DOMAIN paragraph
        THEN Repeat(<< " ", " " >>, NestingLevel(paragraph.bullet))
             \o ListMarker(NestingLevel(paragraph.bullet))
             \o << " " >> \o trimmedText \o << NL >>
        ELSE trimmedText \o << NL, NL >>

\* list || []
ListOf(object, name) == IF name \in DOMAIN object THEN object[name] ELSE <<>>

\* content.replace(/\n/g, " ")
NewlinesToSpaces(text) ==
    [k \in 1..Len(text) |-> IF text[k] = NL THEN " " ELSE text[k]]

\* The runs of a table cell's paragraph, each with its newlines turned into
\* spaces and trimmed, one after the other.
RECURSIVE CellRuns(_)
CellRuns(elements) ==
    IF elements = <<>> THEN <<>>
    ELSE (IF /\ "textRun" \in DOMAIN Head(elements)
             /\ RunContent(Head(elements).textRun) # <<>>
          THEN Trim(NewlinesToSpaces(Head(elements).textRun.content))
          ELSE <<>>)
         \o CellRuns(Tail(elements))

RECURSIVE CellText(_)
CellText(content) ==
    IF content = <<>> THEN <<>>
    ELSE (IF "paragraph" \in DOMAIN Head(content)
          THEN CellRuns(ParagraphElements(Head(content).paragraph))
          ELSE <<>>)
         \o CellText(Tail(content))

\* cellText || " "
CellContents(cells) ==
    [k \in 1..Len(cells) |->
        IF CellText(ListOf(cells[k], "content")) = <<>> THEN << " " >>
        ELSE CellText(ListOf(cells[k], "content"))]

\* Array.prototype.join
RECURSIVE Join(_, _)
Join(texts, separator) ==
    IF texts = <<>> THEN <<>>
    ELSE IF Len(texts) = 1 THEN texts[1]
    ELSE texts[1] \o separator \o Join(Tail(texts), separator)

TableLine(cellContents) ==
    << "|", " " >> \o Join(cellContents, << " ", "|", " " >>) \o << " ", "|", NL >>

Dashes == << "-", "-", "-" >>

RECURSIVE TableRows(_, _)
TableRows(rows, i) ==
    IF i > Len(rows) THEN <<>>
    ELSE LET cellContents == CellContents(ListOf(rows[i], "tableCells"))
         IN  TableLine(cellContents)
             \o (IF i = 1
                 THEN TableLine([k \in 1..Len(cellContents) |-> Dashes])
                 ELSE <<>>)
             \o TableRows(rows, i + 1)

processTable(table) ==
    IF ListOf(table, "tableRows") = <<>> THEN <<>>
    ELSE << NL >> \o TableRows(table.tableRows, 1) \o << NL >>

RECURSIVE RenderBlocks(_)
RenderBlocks(content) ==
    IF content = <<>> THEN <<>>
    ELSE (IF "paragraph" \in DOMAIN Head(content)
          THEN processParagraph(Head(content).paragraph)
          ELSE IF "table" \in DOMAIN Head(content)
          THEN processTable(Head(content).table)
          ELSE IF "sectionBreak" \in DOMAIN Head(content)
          THEN << NL >> \o Dashes \o << NL, NL >>
          ELSE <<>>)
         \o RenderBlocks(Tail(content))

convertDocToMarkdown(document) ==
    IF "body" \notin DOMAIN document \/ "content" \notin DOMAIN document.body
    THEN <<>>
    ELSE Trim(RenderBlocks(document.body.content))

(***************************************************************************)
(* convertDocToMarkdown on its own: Init draws a document, the one action  *)
(* renders it.                                                             *)
(***************************************************************************)
MaxBlocks == 2

Run(content) == [textRun |-> [content |-> content, textStyle |-> EmptyObject]]

BoldRun(content) == [textRun |-> [content |-> content, textStyle |-> [bold |-> TRUE]]]

TitleText == << "T", "i", "t", "l", "e" >>
HelloText == << "H", "e", "l", "l", "o", " " >>
WorldText == << "w", "o", "r", "l", "d" >>

RunLists ==
    { << Run(TitleText \o << NL >>) >>,
      << Run(HelloText), BoldRun(WorldText), Run(<< NL >>) >>,
      << Run(<< NL >>) >>,
      <<>>,
      << [textRun |-> [content |-> << "a", NL, NL >>]] >>,
      << BoldRun(WorldText \o << NL >>) >>,
      << [inlineObjectElement |-> [inlineObjectId |-> "i"]],
         Run(<< "a", NL >>) >> }

NamedStyles ==
    { "NORMAL_TEXT", "TITLE", "SUBTITLE" }
    \cup { HeadingStyleName(n) : n \in MinLevel..MaxLevel }

Bullets ==
    { [listId |-> "l"], [listId |-> "l", nestingLevel |-> 0],
      [listId |-> "l", nestingLevel |-> 1], [listId |-> "l", nestingLevel |-> 2] }

ParagraphBlock(style, bullet, elements) ==
    [paragraph |-> style @@ bullet @@ [elements |-> elements]]

ParagraphBlocks ==
    { ParagraphBlock(st, b, e) :
        st \in { EmptyObject, [paragraphStyle |-> EmptyObject] }
               \cup { [paragraphStyle |-> [namedStyleType |-> n]] : n \in NamedStyles },
        b \in Opt("bullet", Bullets),
        e \in RunLists }
    \cup { [paragraph |-> EmptyObject] }

TableCell(texts) ==
    [content |-> << [paragraph |->
                        [elements |-> [k \in 1..Len(texts) |-> Run(texts[k])]]] >>]

SampleTable ==
    [table |->
        [tableRows |->
            << [tableCells |-> << TableCell(<< << "a", NL >> >>),
                                  TableCell(<< << "b", NL >> >>) >>],
               [tableCells |-> << TableCell(<< << "c", NL >> >>),
                                  TableCell(<< << NL >> >>) >>] >>]]

SectionBreak == [sectionBreak |-> [sectionType |-> "CONTINUOUS"]]

TitleBlock ==
    ParagraphBlock([paragraphStyle |-> [namedStyleType |-> "HEADING_1"]],
                   EmptyObject, << Run(TitleText \o << NL >>) >>)

HelloWorldBlock ==
    ParagraphBlock([paragraphStyle |-> [namedStyleType |-> "NORMAL_TEXT"]],
                   EmptyObject,
                   << Run(HelloText), BoldRun(WorldText), Run(<< NL >>) >>)

ListItemBlock(level) ==
    ParagraphBlock([paragraphStyle |-> [namedStyleType |-> "NORMAL_TEXT"]],
                   [bullet |-> [listId |-> "l", nestingLevel |-> level]],
                   << Run(<< "a", NL >>) >>)

EmptyParagraphBlock ==
    ParagraphBlock(EmptyObject, EmptyObject, << Run(<< NL >>) >>)

Blocks ==
    { TitleBlock, HelloWorldBlock, ListItemBlock(0), ListItemBlock(1),
      EmptyParagraphBlock, SectionBreak, SampleTable }

Documents ==
    { [body |-> [content |-> << b >>]] : b \in ParagraphBlocks }
    \cup { [body |-> [content |-> c]] :
             c \in UNION { [1..n -> Blocks] : n \in 0..MaxBlocks } }
    \cup { [title |-> "t"], [title |-> "t", body |-> EmptyObject] }

InitDoc ==
    /\ pc = "document"
    /\ args \in Documents
    /\ doc = <<>>
    /\ doc0 = <<>>
    /\ snapshot = None
    /\ requests = <<>>
    /\ currentIndex = 0
    /\ calls = <<>>
    /\ result = None

Render ==
    /\ pc = "document"
    /\ result' = convertDocToMarkdown(args)
    /\ pc' = "rendered"
    /\ UNCHANGED <<args, doc, doc0, snapshot, requests, currentIndex, calls>>

NextDoc == Render

SpecDoc == InitDoc /\ [][NextDoc]_vars

(***************************************************************************)
(* Reading a rendered document.                                            *)
(***************************************************************************)
BlocksOf(document) ==
    IF "body" \in DOMAIN document THEN ListOf(document.body, "content") ELSE <<>>

\* How many '#' a named style is rendered with; 0 for a style that is not a
\* heading's.
Hashes(style) ==
    CASE style = "HEADING_1" -> 1 [] style = "HEADING_2" -> 2
      [] style = "HEADING_3" -> 3 [] style = "HEADING_4" -> 4
      [] style = "HEADING_5" -> 5 [] style = "HEADING_6" -> 6
      [] style = "TITLE" -> 1 [] style = "SUBTITLE" -> 2
      [] OTHER -> 0

ParagraphText(paragraph) ==
    StripTrailingNewlines(ComposedRuns(ParagraphElements(paragraph)))

\* The Markdown of one paragraph, as C17 words it.
ExpectedParagraph(paragraph) ==
    LET text == ParagraphText(paragraph)
        n == Hashes(NamedStyleOf(paragraph))
        level == NestingLevel(paragraph.bullet)
    IN  IF text = <<>> THEN << NL >>
        ELSE IF n > 0
        THEN [k \in 1..n |-> "#"] \o << " " >> \o text \o << NL, NL >>
        ELSE IF "bullet" \in DOMAIN paragraph
        THEN [k \in 1..(2 * level) |-> " "]
             \o (IF level = 0 THEN << "1", ".", " " >> ELSE << "-", " " >>)
             \o text \o << NL >>
        ELSE text \o << NL, NL >>

RECURSIVE ExpectedBlocks(_)
ExpectedBlocks(content) ==
    IF content = <<>> THEN <<>>
    ELSE (IF "paragraph" \in DOMAIN Head(content)
          THEN ExpectedParagraph(Head(content).paragraph)
          ELSE IF "table" \in DOMAIN Head(content)
          THEN processTable(Head(content).table)
          ELSE << NL, "-", "-", "-", NL, NL >>)
         \o ExpectedBlocks(Tail(content))

TitleHelloWorld ==
    << "#", " ", "T", "i", "t", "l", "e", NL, NL,
       "H", "e", "l", "l", "o", " ", "*", "*", "w", "o", "r", "l", "d", "*", "*" >>

MaxRows == 2

CellChoices ==
    { TableCell(<< << "a", NL >> >>),
      TableCell(<< HelloText, WorldText, << NL >> >>),
      TableCell(<< << NL >> >>),
      TableCell(<< << "a", NL, "b", NL >> >>),
      [content |->
          << [paragraph |-> [elements |-> << Run(<< "a", NL >>) >>]],
             [paragraph |-> [elements |-> << Run(<< "b", NL >>) >>]] >>] }

ColumnCounts == { 1, 2 }

Tables ==
    { [tableRows |-> rows] :
        rows \in UNION { [1..n -> { [tableCells |-> cells] :
                                       cells \in [1..c -> CellChoices] }] :
                         n \in 0..MaxRows, c \in ColumnCounts } }
    \cup { [rows |-> 0] }

InitTable ==
    /\ pc = "table"
    /\ args \in Tables
    /\ doc = <<>>
    /\ doc0 = <<>>
    /\ snapshot = None
    /\ requests = <<>>
    /\ currentIndex = 0
    /\ calls = <<>>
    /\ result = None

RenderTable ==
    /\ pc = "table"
    /\ result' = processTable(args)
    /\ pc' = "tabled"
    /\ UNCHANGED <<args, doc, doc0, snapshot, requests, currentIndex, calls>>

NextTable == RenderTable

SpecTable == InitTable /\ [][NextTable]_vars

(***************************************************************************)
(* Reading a rendered table.                                               *)
(***************************************************************************)
\* The text of all the runs nested in a cell, one after the other.
RECURSIVE RunsText(_)
RunsText(elements) ==
    IF elements = <<>> THEN <<>>
    ELSE (IF "textRun" \in DOMAIN Head(elements)
          THEN RunContent(Head(elements).textRun) ELSE <<>>)
         \o RunsText(Tail(elements))

RECURSIVE NestedText(_)
NestedText(content) ==
    IF content = <<>> THEN <<>>
    ELSE (IF "paragraph" \in DOMAIN Head(content)
          THEN RunsText(ParagraphElements(Head(content).paragraph))
          ELSE <<>>)
         \o NestedText(Tail(content))

\* A cell's text as C18 words it; a cell without text shows as one space.
StatedCellText(cell) ==
    LET text == Trim(NewlinesToSpaces(NestedText(ListOf(cell, "content"))))
    IN  IF text = <<>> THEN << " " >> ELSE text

StatedLine(texts) ==
    << "|", " " >> \o Join(texts, << " ", "|", " " >>) \o << " ", "|", NL >>

RECURSIVE StatedRows(_, _, _)
StatedRows(rows, i, columns) ==
    IF i > Len(rows) THEN <<>>
    ELSE StatedLine([k \in 1..Len(rows[i].tableCells) |->
                        StatedCellText(rows[i].tableCells[k])])
         \o (IF i = 1 THEN StatedLine([k \in 1..columns |-> << "-", "-", "-" >>])
             ELSE <<>>)
         \o StatedRows(rows, i + 1, columns)

(***************************************************************************)
(* C18. Table rendering: the output has one pipe-delimited line per row,   *)
(* in row order, one separator line of --- cells right after the first     *)
(* row with as many cells as the table has columns, and each cell shows    *)
(* the text of its nested runs put together, newlines turned into spaces,  *)
(* trimmed.                                                                *)
(***************************************************************************)
C18_TableRendering ==
    (pc = "tabled" /\ ListOf(args, "tableRows") # <<>>) =>
        result = << NL >>
                 \o StatedRows(args.tableRows, 1,
                               Len(args.tableRows[1].tableCells))
                 \o << NL >>

(***************************************************************************)
(* buildUpdateSummary on its own: a list of requests is drawn, the summary *)
(* is built from it.                                                       *)
(***************************************************************************)
MaxRequests == 2

OverlongText == [k \in 1..(PreviewLimit + 1) |-> "a"]

Range(startIndex, endIndex) ==
    [range |-> [startIndex |-> startIndex, endIndex |-> endIndex]]

\* One request of every kind the builder names, with and without the
\* properties it reads through ?., and two kinds it does not name.
SummaryRequests ==
    { InsertTextRequest(1, << "X", NL >>),
      InsertTextRequest(3, OverlongText),
      [insertText |-> [location |-> [index |-> 2]]],
      DeleteRequest(1, 3),
      [deleteContentRange |-> EmptyObject],
      [updateTextStyle |-> Range(1, 2) @@ [fields |-> "bold"]],
      [updateParagraphStyle |-> Range(1, 2) @@ [fields |-> "alignment"]],
      [insertTable |-> [rows |-> 2, columns |-> 3,
                        location |-> [index |-> 1]]],
      [insertTableRow |-> [insertBelow |-> TRUE]],
      [insertTableRow |-> [insertBelow |-> FALSE]],
      [insertTableColumn |-> [insertRight |-> TRUE]],
      [insertTableColumn |-> EmptyObject],
      [deleteTableRow |-> EmptyObject],
      [deleteTableColumn |-> EmptyObject],
      [replaceAllText |-> [containsText |-> [text |-> << "a" >>],
                           replaceText |-> << "b" >>]],
      [createParagraphBullets |-> Range(1, 3)],
      [deleteParagraphBullets |-> Range(1, 3)],
      [insertPageBreak |-> [location |-> [index |-> 1]]],
      [createNamedRange |-> [name |-> "n"] @@ Range(1, 2)] }

RECURSIVE ListsUpTo(_, _)
ListsUpTo(S, n) ==
    IF n = 0 THEN { <<>> }
    ELSE ListsUpTo(S, n - 1)
         \cup { Append(l, x) : l \in { m \in ListsUpTo(S, n - 1) : Len(m) = n - 1 },
                                x \in S }

SummaryInputs == ListsUpTo(SummaryRequests \cup { None }, MaxRequests)

InitSummary ==
    /\ pc = "requests"
    /\ requests \in SummaryInputs
    /\ args = requests
    /\ doc = <<>> /\ doc0 = <<>>
    /\ snapshot = None
    /\ currentIndex = 0
    /\ calls = <<>>
    /\ result = None

Summarise ==
    /\ pc = "requests"
    /\ pc' = "summarised"
    /\ result' = buildUpdateSummary(requests)
    /\ UNCHANGED <<args, doc, doc0, snapshot, requests, currentIndex, calls>>

NextSummary == Summarise

SpecSummary == InitSummary /\ [][NextSummary]_vars

\* The kind of a request is the one field it sets.
KindOf(r) == CHOOSE k \in DOMAIN r : TRUE

\* How the line of each kind the builder names begins.
LineHead ==
    [insertText |-> "- Inserted text at index",
     deleteContentRange |-> "- Deleted content from index",
     updateTextStyle |-> "- Updated text style from index",
     updateParagraphStyle |-> "- Updated paragraph style from index",
     insertTable |-> "- Inserted table with",
     insertTableRow |-> "- Inserted table row at index",
     insertTableColumn |-> "- Inserted table column at index",
     deleteTableRow |-> "- Deleted table row",
     deleteTableColumn |-> "- Deleted table column",
     replaceAllText |-> "- Replaced all occurrences of",
     createParagraphBullets |-> "- Created paragraph bullets from index",
     deleteParagraphBullets |-> "- Deleted paragraph bullets from index"]

\* line is the line of request r.
LineOf(line, r) ==
    IF KindOf(r) \in DOMAIN LineHead
    THEN line[1] = LineHead[KindOf(r)]
    ELSE line = << "- Executed operation:", KindOf(r) >>

\* The instructions of a list: its entries that are requests.
Instructions(reqs) == SelectSeq(reqs, LAMBDA r : r # None)

RawForm(a) ==
    /\ a # None
    /\ "requests" \in DOMAIN a
    /\ "operation" \notin DOMAIN a
    /\ "target" \notin DOMAIN a

\* The arguments name a document the tool can address.
ValidReference(a) ==
    "doc_id_or_url" \in DOMAIN a /\ extractDocId(a.doc_id_or_url) # None

\* The arguments are an edit intent with one of the six operations and a
\* target.
CompiledForm(a) ==
    /\ a # None
    /\ {"doc_id_or_url", "operation", "target"} \subseteq DOMAIN a
    /\ a.operation \in Operations

NamedStyleAttribute(namedStyleType) ==
    [paragraphStyle |-> [namedStyleType |-> namedStyleType]]

\* The index at which the paragraph that ends with the newline at p starts.
RECURSIVE ParagraphStart(_, _)
ParagraphStart(cells, p) ==
    IF p = 1 \/ cells[p - 1].ch = NL THEN p ELSE ParagraphStart(cells, p - 1)

Overlaps(cells, p, range) ==
    /\ cells[p].ch = NL
    /\ ParagraphStart(cells, p) < range.endIndex
    /\ range.startIndex <= p

\* Of the attributes of a cell, those of its paragraph and that of its text.
ParagraphAttributesOf(a) ==
    [k \in (DOMAIN a) \cap { "paragraphStyle", "bullet" } |-> a[k]]

TextStyleOf(a) == [k \in (DOMAIN a) \cap { "textStyle" } |-> a[k]]

TextStyleAt(d, p) ==
    IF "textStyle" \in DOMAIN d.attrs[p] THEN d.attrs[p].textStyle
    ELSE EmptyObject

ApplyAttributes(d, r, k) ==
    IF "insertText" \in DOMAIN r THEN
        LET i == r.insertText.location.index
            text == r.insertText.text
            paragraph == ParagraphAttributesOf(d.attrs[NextNewline(d.cells, i)])
            style == TextStyleOf(d.attrs[IF i > 1 THEN i - 1 ELSE i])
        IN  SubSeq(d.attrs, 1, i - 1)
            \o [j \in 1..Len(text) |->
                   IF text[j] = NL THEN style @@ paragraph ELSE style]
            \o SubSeq(d.attrs, i, Len(d.attrs))
    ELSE IF "deleteContentRange" \in DOMAIN r THEN
        SubSeq(d.attrs, 1, r.deleteContentRange.range.startIndex - 1)
        \o SubSeq(d.attrs, r.deleteContentRange.range.endIndex, Len(d.attrs))
    ELSE IF /\ "updateParagraphStyle" \in DOMAIN r
            /\ "namedStyleType" \in DOMAIN r.updateParagraphStyle.paragraphStyle
    THEN
        [p \in 1..Len(d.attrs) |->
            IF Overlaps(d.cells, p, r.updateParagraphStyle.range)
            THEN NamedStyleAttribute(
                     r.updateParagraphStyle.paragraphStyle.namedStyleType)
                 @@ d.attrs[p]
            ELSE d.attrs[p]]
    ELSE IF "createParagraphBullets" \in DOMAIN r THEN
        [p \in 1..Len(d.attrs) |->
            IF Overlaps(d.cells, p, r.createParagraphBullets.range)
            THEN [bullet |-> [listId |-> "created"]] @@ d.attrs[p]
            ELSE d.attrs[p]]
    ELSE IF "updateTextStyle" \in DOMAIN r THEN
        [p \in 1..Len(d.attrs) |->
            IF /\ r.updateTextStyle.range.startIndex <= p
               /\ p < r.updateTextStyle.range.endIndex
            THEN [textStyle |-> r.updateTextStyle.textStyle @@ TextStyleAt(d, p)]
                 @@ d.attrs[p]
            ELSE d.attrs[p]]
    ELSE d.attrs

RECURSIVE ApplyStyledFrom(_, _, _)
ApplyStyledFrom(d, reqs, k) ==
    IF k > Len(reqs) THEN [ok |-> TRUE, doc |-> d]
    ELSE LET one == ApplyRequest(d.cells, reqs[k], k)
         IN  IF one.ok
             THEN ApplyStyledFrom([cells |-> one.cells,
                                   attrs |-> ApplyAttributes(d, reqs[k], k)],
                                  reqs, k + 1)
             ELSE [ok |-> FALSE, doc |-> d]

\* documents.batchUpdate: all of the batch or none of it.
ApplyStyledBatch(d, reqs) ==
    LET out == ApplyStyledFrom(d, reqs, 1)
    IN  IF out.ok THEN out ELSE [ok |-> FALSE, doc |-> d]

\* The index at which the text run that starts at s ends: where the text
\* style changes, or with the paragraph at e.
RECURSIVE RunEnd(_, _, _)
RunEnd(d, s, e) ==
    IF s + 1 >= e \/ TextStyleAt(d, s + 1) # TextStyleAt(d, s) THEN s + 1
    ELSE RunEnd(d, s + 1, e)

RECURSIVE TextRunsFrom(_, _, _)
TextRunsFrom(d, s, e) ==
    IF s >= e THEN <<>>
    ELSE << [startIndex |-> s,
             endIndex |-> RunEnd(d, s, e),
             textRun |->
                [content |-> TextOf(SubSeq(d.cells, s, RunEnd(d, s, e) - 1)),
                 textStyle |-> TextStyleAt(d, s)]] >>
         \o TextRunsFrom(d, RunEnd(d, s, e), e)

\* documents.get: the structure of Snapshot, every paragraph with its
\* attributes and its text split into runs of one text style.
StyledSnapshot(d) ==
    LET plain == Snapshot(d.cells)
    IN  [plain EXCEPT !.body.content =
            [k \in 1..Len(plain.body.content) |->
                LET block == plain.body.content[k]
                IN  IF "paragraph" \in DOMAIN block
                    THEN [block EXCEPT !.paragraph =
                            ParagraphAttributesOf(d.attrs[block.endIndex - 1])
                            @@ [elements |->
                                  TextRunsFrom(d, block.startIndex, block.endIndex)]]
                    ELSE block]]

\* One invocation of handleJsonPathOperation from documents.get to the
\* answer of documents.batchUpdate.
EditOutcome(d, a) ==
    LET compiled == ResolveAndCompile(a, StyledSnapshot(d))
    IN  IF ~compiled.ok THEN [ok |-> FALSE, doc |-> d, requests |-> <<>>]
        ELSE [ok |-> ApplyStyledBatch(d, compiled.requests).ok,
              doc |-> ApplyStyledBatch(d, compiled.requests).doc,
              requests |-> compiled.requests]

(***************************************************************************)
(* Insert, then delete: a document is rendered, an insert intent is run,   *)
(* delete intents are run one after the other, each on a fresh snapshot,   *)
(* while inserted text is left, and the document is rendered again.        *)
(***************************************************************************)
MaxInserted == 1

ParagraphAttributes ==
    { NamedStyleAttribute("NORMAL_TEXT"), NamedStyleAttribute("HEADING_1"),
      NamedStyleAttribute("NORMAL_TEXT") @@ [bullet |-> [listId |-> "l"]] }

\* The paragraphs "x\n" and "y\n", each with its attributes.
StyledDocs ==
    { [cells |-> CellsOf(<< "x", NL, "y", NL >>, 0),
       attrs |-> << EmptyObject, first, EmptyObject, second >>] :
        first \in ParagraphAttributes, second \in ParagraphAttributes }

InsertIntents ==
    { BaseArgs(op, ContentPath(i)) @@ [content |-> c] :
        op \in { "insertAfter", "insertBefore" }, i \in 0..2,
        c \in UNION { [1..n -> Items] : n \in 1..MaxInserted } }

InsertedLeft(d) == \E k \in 1..Len(d.cells) : d.cells[k].by # 0

\* The paths of the blocks of a document.
BlockPaths(d) == { ContentPath(i) : i \in 0..Len(StyledSnapshot(d).body.content) - 1 }

InitRoundTrip ==
    /\ pc = "idle"
    /\ args = None
    /\ doc \in StyledDocs
    /\ doc0 = doc
    /\ snapshot = None
    /\ requests = <<>>
    /\ currentIndex = 0
    /\ calls = <<>>
    /\ result = None

RenderBefore ==
    /\ pc = "idle"
    /\ pc' = "rendered"
    /\ snapshot' = convertDocToMarkdown(StyledSnapshot(doc))
    /\ UNCHANGED <<args, doc, doc0, requests, currentIndex, calls, result>>

InsertContent ==
    /\ pc = "rendered"
    /\ \E a \in InsertIntents :
          /\ EditOutcome(doc, a).ok
          /\ args' = a
          /\ doc' = EditOutcome(doc, a).doc
          /\ requests' = EditOutcome(doc, a).requests
    /\ pc' = "inserted"
    /\ currentIndex' = 1
    /\ UNCHANGED <<doc0, snapshot, calls, result>>

InsertRefused ==
    /\ pc = "rendered"
    /\ \E a \in InsertIntents :
          /\ ~EditOutcome(doc, a).ok
          /\ args' = a
    /\ pc' = "refused"
    /\ UNCHANGED <<doc, doc0, snapshot, requests, currentIndex, calls, result>>

DeleteContent ==
    /\ pc = "inserted"
    /\ InsertedLeft(doc)
    /\ \E t \in BlockPaths(doc) :
          LET out == EditOutcome(doc, BaseArgs("delete", t))
          IN  /\ out.ok
              /\ doc' = out.doc
              /\ requests' = out.requests
    /\ currentIndex' = currentIndex + 1
    /\ UNCHANGED <<pc, args, doc0, snapshot, calls, result>>

DeleteRefused ==
    /\ pc = "inserted"
    /\ InsertedLeft(doc)
    /\ \E t \in BlockPaths(doc) : ~EditOutcome(doc, BaseArgs("delete", t)).ok
    /\ pc' = "refused"
    /\ UNCHANGED <<args, doc, doc0, snapshot, requests, currentIndex, calls, result>>

RenderAfter ==
    /\ pc = "inserted"
    /\ ~InsertedLeft(doc)
    /\ pc' = "rerendered"
    /\ result' = convertDocToMarkdown(StyledSnapshot(doc))
    /\ UNCHANGED <<args, doc, doc0, snapshot, requests, currentIndex, calls>>

NextRoundTrip ==
    \/ RenderBefore
    \/ InsertContent
    \/ InsertRefused
    \/ DeleteContent
    \/ DeleteRefused
    \/ RenderAfter

SpecRoundTrip == InitRoundTrip /\ [][NextRoundTrip]_vars

\* What the delete intents took out is what the insert intent put in: no
\* inserted character is left and every character of the first snapshot is.
InsertedDeleted ==
    /\ ~InsertedLeft(doc)
    /\ Len(doc.cells) = Len(doc0.cells)

(***************************************************************************)
(* C15. Markdown idempotence on structure: when a snapshot is rendered,    *)
(* content is inserted with an insert intent, that same content is deleted *)
(* again with delete intents, and the new snapshot is rendered, the two    *)
(* Markdown texts are the same.                                            *)
(***************************************************************************)
C15_MarkdownIdempotence ==
    (pc = "rerendered" /\ InsertedDeleted) => result = snapshot

\* A two-item list was inserted in front of a heading and taken out again
\* by two delete intents; the Markdown is that of the first snapshot.
C15_Witness ==
    /\ pc = "rerendered"
    /\ InsertedDeleted
    /\ args.content = << BulletList(<< <<"A">>, <<"B">> >>) >>
    /\ currentIndex = 3
    /\ doc0.attrs[2] = NamedStyleAttribute("HEADING_1")
    /\ args.target = ContentPath(1)
    /\ args.operation = "insertBefore"
    /\ result = snapshot
    /\ result # <<>>

(***************************************************************************)
(* C24. Error implies no mutation: whenever an invocation of the JSONPath  *)
(* form returns an error result, no batch of that invocation has been      *)
(* applied: the document is as it was before the call.                     *)
(***************************************************************************)
C24_ErrorImpliesNoMutation ==
    (pc = "done" /\ IsError(result)) =>
        /\ doc = doc0
        /\ \A k \in 1..Len(calls) :
              calls[k].method = "documents.batchUpdate" => calls[k].reply # "ok"

(***************************************************************************)
(* C25. No empty batch is ever submitted: every documents.batchUpdate the  *)
(* tool issues, whatever the accepted intent and its content list, carries *)
(* at least one instruction.                                               *)
(***************************************************************************)
C25_NoEmptyBatch ==
    \A k \in 1..Len(calls) :
        calls[k].method = "documents.batchUpdate" => Len(calls[k].requests) >= 1

(***************************************************************************)
(* convertSheetToMarkdown.  A grid is a sequence of rows, a row a sequence *)
(* of cells, a cell a text.                                                *)
(***************************************************************************)
\* Math.max(...values.map((row) => row.length))
MaxCols(values) ==
    CHOOSE n \in { Len(values[k]) : k \in 1..Len(values) } :
        \A k \in 1..Len(values) : Len(values[k]) <= n

\* The row with "" pushed until it has maxCols cells.
Normalized(row, maxCols) ==
    [c \in 1..maxCols |-> IF c <= Len(row) THEN row[c] ELSE <<>>]

\* `| ${row.map((cell) => cell || " ").join(" | ")} |\n`
SheetRow(row) ==
    << "|", " " >>
    \o Join([c \in 1..Len(row) |-> IF row[c] = <<>> THEN << " " >> ELSE row[c]],
            << " ", "|", " " >>)
    \o << " ", "|", NL >>

SheetSeparator(row) ==
    << "|", " " >>
    \o Join([c \in 1..Len(row) |-> Dashes], << " ", "|", " " >>)
    \o << " ", "|", NL >>

\* for (let i = 1; i < normalizedRows.length; i++) markdown += ...
RECURSIVE DataRows(_, _)
DataRows(normalizedRows, i) ==
    IF i > Len(normalizedRows) THEN <<>>
    ELSE SheetRow(normalizedRows[i]) \o DataRows(normalizedRows, i + 1)

convertSheetToMarkdown(values) ==
    IF Len(values) = 0
    THEN << "*", "(", "empty spreadsheet", ")", "*" >>
    ELSE LET normalizedRows ==
                 [k \in 1..Len(values) |-> Normalized(values[k], MaxCols(values))]
         IN  SheetRow(normalizedRows[1])
             \o SheetSeparator(normalizedRows[1])
             \o DataRows(normalizedRows, 2)
             \o DataRows(normalizedRows, 2)

MaxSheetRows == 3
MaxSheetCols == 2

SheetCells == { <<>>, << "a" >> }

SheetRows == UNION { [1..n -> SheetCells] : n \in 0..MaxSheetCols }

Grids == UNION { [1..n -> SheetRows] : n \in 0..MaxSheetRows }

InitSheet ==
    /\ pc = "values"
    /\ args \in Grids
    /\ doc = <<>> /\ doc0 = <<>>
    /\ snapshot = None
    /\ requests = <<>>
    /\ currentIndex = 0
    /\ calls = <<>>
    /\ result = None

RenderSheet ==
    /\ pc = "values"
    /\ pc' = "sheet"
    /\ result' = convertSheetToMarkdown(args)
    /\ UNCHANGED <<args, doc, doc0, snapshot, requests, currentIndex, calls>>

NextSheet == RenderSheet

SpecSheet == InitSheet /\ [][NextSheet]_vars

\* The number of lines of a text: the newlines in it.
LineCount(text) == Cardinality({ k \in 1..Len(text) : text[k] = NL })

\* The rows from the i-th on, each once, padded to n cells.
RECURSIVE RowsOnce(_, _, _)
RowsOnce(values, i, n) ==
    IF i > Len(values) THEN <<>>
    ELSE SheetRow(Normalized(values[i], n)) \o RowsOnce(values, i + 1, n)

(***************************************************************************)
(* C29. Spreadsheet rendering: for every non-empty grid the output is the  *)
(* first row as the header, then one separator row, then every remaining   *)
(* row exactly once and in sheet order, so it has as many lines as the     *)
(* grid has rows plus one; every row is padded to the column count of the  *)
(* widest row.                                                             *)
(***************************************************************************)
C29_SheetRendering ==
    (pc = "sheet" /\ args # <<>>) =>
        /\ LineCount(result) = Len(args) + 1
        /\ result = SheetRow(Normalized(args[1], MaxCols(args)))
                    \o SheetSeparator(Normalized(args[1], MaxCols(args)))
                    \o RowsOnce(args, 2, MaxCols(args))

(***************************************************************************)
(* gdrive_reply_to_comment.  The document's comment thread is the comment  *)
(* (its content, its resolved flag) and its replies; drive.replies.create  *)
(* and drive.comments.update either fail or are applied, the update with   *)
(* patch semantics.  The handler is split at its awaits.                   *)
(***************************************************************************)
Thread(content, resolved, replies) ==
    [content |-> content, resolved |-> resolved, replies |-> replies]

ReplyCreateCall(docId, commentId, content) ==
    [method |-> "replies.create", fileId |-> docId, commentId |-> commentId,
     requestBody |-> [content |-> content], reply |-> "pending"]

CommentUpdateCall(docId, commentId, requestBody) ==
    [method |-> "comments.update", fileId |-> docId, commentId |-> commentId,
     requestBody |-> requestBody, reply |-> "pending"]

\* comments.update applied: the fields of the request body replace the
\* comment's.
Patched(thread, requestBody) ==
    [k \in DOMAIN thread |->
        IF k \in DOMAIN requestBody THEN requestBody[k] ELSE thread[k]]

\* if (resolve)
Resolves(a) == "resolve" \in DOMAIN a /\ a.resolve

\* if (assigneeEmail)
Assigns(a) == TruthyString(a, "assignee_email")

ReplyAdded == << "Reply added successfully!" >>

ReplyResult(text) == [content |-> << [type |-> "text", text |-> text] >>]

\* The request body of the second comments.update.
AssigneeBody(a) == [content |-> a.reply]

\* After the reply, and after the resolving update: the next update the
\* arguments ask for is sent, or the text is returned.
AssignOrReturn(a, text) ==
    IF Assigns(a)
    THEN /\ pc' = "assigning"
         /\ result' = ReplyResult(text)
         /\ calls' = Append(Answered(calls, "ok"),
                            CommentUpdateCall(extractDocId(a.doc_id_or_url),
                                              a.comment_id, AssigneeBody(a)))
    ELSE /\ pc' = "done"
         /\ result' = ReplyResult(text)
         /\ calls' = Answered(calls, "ok")

ReplyArgs ==
    { [doc_id_or_url |-> ref, comment_id |-> "c1", reply |-> r] @@ x @@ e :
        ref \in { GoodId, << "#" >> },
        r \in { "thanks", "" },
        x \in Opt("resolve", BOOLEAN),
        e \in Opt("assignee_email", { "", "a@b.c" }) }

Threads ==
    { Thread("original", FALSE, <<>>), Thread("original", TRUE, << "first" >>) }

InitReply ==
    /\ pc = "idle"
    /\ args = None
    /\ doc \in Threads
    /\ doc0 = doc
    /\ snapshot = None
    /\ requests = <<>>
    /\ currentIndex = 0
    /\ calls = <<>>
    /\ result = None

\* handler and replyToComment up to drive.replies.create.
ReplyCall ==
    /\ pc = "idle"
    /\ \E a \in ReplyArgs :
          /\ args' = a
          /\ IF extractDocId(a.doc_id_or_url) = None
             THEN /\ pc' = "done"
                  /\ result' = ErrorResult(<< "Invalid document ID or URL" >>)
                  /\ calls' = <<>>
             ELSE /\ pc' = "replying"
                  /\ result' = None
                  /\ calls' = << ReplyCreateCall(extractDocId(a.doc_id_or_url),
                                                 a.comment_id, a.reply) >>
    /\ UNCHANGED <<doc, doc0, snapshot, requests, currentIndex>>

ReplyCreateFails ==
    /\ pc = "replying"
    /\ pc' = "done"
    /\ result' = ErrorResult(<< "Failed to reply to comment:", "replies.create" >>)
    /\ calls' = Answered(calls, "error")
    /\ UNCHANGED <<args, doc, doc0, snapshot, requests, currentIndex>>

ReplyCreated ==
    /\ pc = "replying"
    /\ doc' = [doc EXCEPT !.replies = Append(@, args.reply)]
    /\ IF Resolves(args)
       THEN /\ pc' = "resolving"
            /\ result' = ReplyResult(ReplyAdded)
            /\ calls' = Append(Answered(calls, "ok"),
                               CommentUpdateCall(extractDocId(args.doc_id_or_url),
                                                 args.comment_id,
                                                 [resolved |-> TRUE]))
       ELSE AssignOrReturn(args, ReplyAdded)
    /\ UNCHANGED <<args, doc0, snapshot, requests, currentIndex>>

ResolveFails ==
    /\ pc = "resolving"
    /\ pc' = "done"
    /\ result' = ErrorResult(<< "Failed to reply to comment:", "comments.update" >>)
    /\ calls' = Answered(calls, "error")
    /\ UNCHANGED <<args, doc, doc0, snapshot, requests, currentIndex>>

ResolveApplied ==
    /\ pc = "resolving"
    /\ doc' = Patched(doc, calls[Len(calls)].requestBody)
    /\ AssignOrReturn(args, ReplyAdded \o << "Thread marked as RESOLVED." >>)
    /\ UNCHANGED <<args, doc0, snapshot, requests, currentIndex>>

\* The second update throws; the inner catch turns it into a warning.
AssignFails ==
    /\ pc = "assigning"
    /\ pc' = "done"
    /\ result' = ReplyResult(result.content[1].text
                    \o << "Warning: Could not set assignee. This feature may not be available." >>)
    /\ calls' = Answered(calls, "error")
    /\ UNCHANGED <<args, doc, doc0, snapshot, requests, currentIndex>>

AssignApplied ==
    /\ pc = "assigning"
    /\ pc' = "done"
    /\ doc' = Patched(doc, calls[Len(calls)].requestBody)
    /\ result' = ReplyResult(result.content[1].text
                    \o << "Note: Assignee feature may require additional permissions." >>)
    /\ calls' = Answered(calls, "ok")
    /\ UNCHANGED <<args, doc0, snapshot, requests, currentIndex>>

NextReply ==
    \/ ReplyCall
    \/ ReplyCreateFails
    \/ ReplyCreated
    \/ ResolveFails
    \/ ResolveApplied
    \/ AssignFails
    \/ AssignApplied

SpecReply == InitReply /\ [][NextReply]_vars

(***************************************************************************)
(* C28. reply_to_comment only adds a reply and, when resolve is true, sets *)
(* the resolved flag: whatever resolve and assignee_email are, the content *)
(* of the original comment stays what it was, at most one reply is added,  *)
(* and no update of the comment is sent before the reply was created.      *)
(***************************************************************************)
C28_OnlyAddsReply ==
    /\ doc.content = doc0.content
    /\ pc = "idle" => doc = doc0
    /\ pc # "idle" =>
          /\ doc.replies \in { doc0.replies, Append(doc0.replies, args.reply) }
          /\ doc.resolved # doc0.resolved => Resolves(args)
    /\ \A k \in 1..Len(calls) :
          calls[k].method = "comments.update" =>
              /\ k > 1
              /\ calls[1].method = "replies.create"
              /\ calls[1].reply = "ok"

(***************************************************************************)
(* convertToMarkdown of gdrive_get_doc_contents.  Its processParagraph,    *)
(* processTextRun and processTable are, character for character, those of  *)
(* gdrive_get_contents; the function itself is translated on its own.      *)
(***************************************************************************)
RECURSIVE ConvertElements(_)
ConvertElements(content) ==
    IF content = <<>> THEN <<>>
    ELSE LET element == Head(content)
         IN  (IF "paragraph" \in DOMAIN element
              THEN processParagraph(element.paragraph)
              ELSE IF "table" \in DOMAIN element
              THEN processTable(element.table)
              ELSE IF "sectionBreak" \in DOMAIN element
              THEN << NL, "-", "-", "-", NL, NL >>
              ELSE <<>>)
             \o ConvertElements(Tail(content))

\* convertToMarkdown that returns the text as the loop left it.
convertToMarkdownUntrimmed(document) ==
    IF "body" \notin DOMAIN document \/ "content" \notin DOMAIN document.body
    THEN <<>>
    ELSE ConvertElements(document.body.content)

convertToMarkdown(document) ==
    IF "body" \notin DOMAIN document \/ "content" \notin DOMAIN document.body
    THEN <<>>
    ELSE Trim(ConvertElements(document.body.content))

(***************************************************************************)
(* The two renderers side by side: a snapshot is rendered by both, then by *)
(* both once more.                                                         *)
(***************************************************************************)
Renderings(document) ==
    [get_contents |-> convertDocToMarkdown(document),
     get_doc_contents |-> convertToMarkdown(document)]

InitBoth ==
    /\ pc = "document"
    /\ args \in Documents
    /\ doc = <<>> /\ doc0 = <<>>
    /\ snapshot = None
    /\ requests = <<>>
    /\ currentIndex = 0
    /\ calls = <<>>
    /\ result = None

RenderBoth ==
    /\ pc = "document"
    /\ pc' = "rendered"
    /\ result' = Renderings(args)
    /\ UNCHANGED <<args, doc, doc0, snapshot, requests, currentIndex, calls>>

RenderBothAgain ==
    /\ pc = "rendered"
    /\ pc' = "rerendered"
    /\ snapshot' = Renderings(args)
    /\ UNCHANGED <<args, doc, doc0, requests, currentIndex, calls, result>>

NextBoth == RenderBoth \/ RenderBothAgain

SpecBoth == InitBoth /\ [][NextBoth]_vars

Emoji == << "U+D83D", "U+DCDD" >>

DigitChars == << "0", "1", "2", "3", "4", "5", "6", "7", "8", "9" >>

\* `${n}` for a number that is a natural.
RECURSIVE Digits(_)
Digits(n) ==
    IF n < 10 THEN << DigitChars[n + 1] >>
    ELSE Digits(n \div 10) \o << DigitChars[(n % 10) + 1] >>

IsDigit(ch) == \E k \in 1..10 : DigitChars[k] = ch

DigitValue(ch) == (CHOOSE k \in 1..10 : DigitChars[k] = ch) - 1

\* Number.parseInt(digits, 10)
RECURSIVE ParseInt(_)
ParseInt(digits) ==
    IF digits = <<>> THEN 0
    ELSE 10 * ParseInt(SubSeq(digits, 1, Len(digits) - 1))
         + DigitValue(digits[Len(digits)])

\* pattern occurs in text at position p (the first position is 1).
OccursAt(text, p, pattern) ==
    /\ p + Len(pattern) - 1 <= Len(text)
    /\ \A k \in 1..Len(pattern) : text[p + k - 1] = pattern[k]

\* String.prototype.indexOf: the index of the first occurrence, from 0,
\* or -1.
IndexOf(text, pattern) ==
    IF \E p \in 1..(Len(text) + 1) : OccursAt(text, p, pattern)
    THEN (CHOOSE p \in 1..(Len(text) + 1) :
            /\ OccursAt(text, p, pattern)
            /\ \A q \in 1..(p - 1) : ~OccursAt(text, q, pattern)) - 1
    ELSE -1

\* String.prototype.includes
IncludesText(text, pattern) == IndexOf(text, pattern) # -1

NoteWord == Emoji \o << " ", "N", "O", "T", "E", " " >>

\* `📝 NOTE ${n}:`
NoteHeader(n) == NoteWord \o Digits(n) \o << ":" >>

\* NotePrefix without the space that ends it.
NotePrefixNoSpace(n) == NoteHeader(n)

\* `📝 NOTE ${n}: `
NotePrefix(n) == NoteHeader(n) \o << " " >>

\* The digits that start at position p of the text.
RECURSIVE DigitsAt(_, _)
DigitsAt(text, p) ==
    IF p <= Len(text) /\ IsDigit(text[p])
    THEN << text[p] >> \o DigitsAt(text, p + 1)
    ELSE <<>>

\* /📝 NOTE (\d+):/ matches at position p.
HeaderAt(text, p) ==
    /\ OccursAt(text, p, NoteWord)
    /\ DigitsAt(text, p + Len(NoteWord)) # <<>>
    /\ OccursAt(text, p + Len(NoteWord) + Len(DigitsAt(text, p + Len(NoteWord))),
                << ":" >>)

\* content.match(/📝 NOTE (\d+):/): the number of the first header in the
\* text, 0 when there is no match.
MatchedNoteNumber(text) ==
    IF \E p \in 1..Len(text) : HeaderAt(text, p)
    THEN LET p == CHOOSE q \in 1..Len(text) :
                    HeaderAt(text, q) /\ \A o \in 1..(q - 1) : ~HeaderAt(text, o)
         IN  ParseInt(DigitsAt(text, p + Len(NoteWord)))
    ELSE 0

\* textElement.textRun?.content || ""
RunText(textElement) ==
    IF "textRun" \in DOMAIN textElement /\ "content" \in DOMAIN textElement.textRun
    THEN textElement.textRun.content ELSE <<>>

\* MaxInRuns that keeps the number it saw last.
RECURSIVE MaxInRunsLastSeen(_, _, _)
MaxInRunsLastSeen(elements, i, maxNoteNumber) ==
    IF i > Len(elements) THEN maxNoteNumber
    ELSE LET noteNum == MatchedNoteNumber(RunText(elements[i]))
         IN  MaxInRunsLastSeen(elements, i + 1,
                               IF noteNum > 0 THEN noteNum ELSE maxNoteNumber)

\* The largest note number in the runs of the elements from the i-th on.
RECURSIVE MaxInRuns(_, _, _)
MaxInRuns(elements, i, maxNoteNumber) ==
    IF i > Len(elements) THEN maxNoteNumber
    ELSE LET noteNum == MatchedNoteNumber(RunText(elements[i]))
         IN  MaxInRuns(elements, i + 1,
                       IF noteNum > maxNoteNumber THEN noteNum ELSE maxNoteNumber)

RECURSIVE MaxNoteNumber(_, _, _)
MaxNoteNumber(content, i, maxNoteNumber) ==
    IF i > Len(content) THEN maxNoteNumber
    ELSE MaxNoteNumber(content, i + 1,
            IF "paragraph" \in DOMAIN content[i]
            THEN MaxInRuns(ParagraphElements(content[i].paragraph), 1,
                           maxNoteNumber)
            ELSE maxNoteNumber)

\* A run of the paragraph includes the pattern.
SomeRunIncludes(paragraph, pattern) ==
    \E j \in 1..Len(ParagraphElements(paragraph)) :
        IncludesText(RunText(ParagraphElements(paragraph)[j]), pattern)

\* The first paragraph of the content one of whose runs includes the
\* pattern: its place in the content, 0 when there is none.
FirstParagraphWith(content, pattern) ==
    LET hits == { i \in 1..Len(content) :
                    /\ "paragraph" \in DOMAIN content[i]
                    /\ SomeRunIncludes(content[i].paragraph, pattern) }
    IN  IF hits = {} THEN 0
        ELSE CHOOSE i \in hits : \A h \in hits : i <= h

\* `\n📝 NOTE ${nextNoteNumber}: ${note}\n\n`
NoteText(nextNoteNumber, note) ==
    << NL >> \o NotePrefix(nextNoteNumber) \o note \o << NL, NL >>

NoteParagraphStyle ==
    [namedStyleType |-> "NORMAL_TEXT", shading |-> "cream",
     indentStart |-> 20, indentEnd |-> 20, spaceAbove |-> 8, spaceBelow |-> 8]

InsertNoteRequests(targetIndex, nextNoteNumber, note) ==
    LET noteText == NoteText(nextNoteNumber, note)
    IN  << InsertTextRequest(targetIndex, noteText),
           [updateParagraphStyle |->
               [range |-> [startIndex |-> targetIndex + 1,
                           endIndex |-> targetIndex + Len(noteText) - 2],
                paragraphStyle |-> NoteParagraphStyle,
                fields |-> << "namedStyleType", "shading", "indentStart",
                              "indentEnd", "spaceAbove", "spaceBelow" >>]],
           [updateTextStyle |->
               [range |-> [startIndex |-> targetIndex + 1,
                           endIndex |-> targetIndex + Len(noteText) - 2],
                textStyle |-> [fontSize |-> 11],
                fields |-> << "fontSize" >>]],
           [updateTextStyle |->
               [range |-> [startIndex |-> targetIndex + 1,
                           endIndex |-> targetIndex + 1
                                        + Len(NoteHeader(nextNoteNumber))],
                textStyle |-> [bold |-> TRUE, foregroundColor |-> "orange"],
                fields |-> << "bold", "foregroundColor" >>]] >>

HasContent(data) == "body" \in DOMAIN data /\ "content" \in DOMAIN data.body

\* insertNote from doc.data to the requests.
insertNote(data, searchText, note) ==
    IF ~HasContent(data) THEN Throw(<< "Document has no content" >>)
    ELSE LET content == data.body.content
             nextNoteNumber == MaxNoteNumber(content, 1, 0) + 1
             found == FirstParagraphWith(content, searchText)
         IN  IF found = 0 \/ "endIndex" \notin DOMAIN content[found]
             THEN Throw(<< "Could not find the text", searchText >>)
             ELSE [ok |-> TRUE,
                   nextNoteNumber |-> nextNoteNumber,
                   requests |-> InsertNoteRequests(content[found].endIndex,
                                                   nextNoteNumber, note)]

\* The text of a paragraph: its runs put together.
RECURSIVE ParagraphTextOf(_)
ParagraphTextOf(elements) ==
    IF elements = <<>> THEN <<>>
    ELSE RunText(Head(elements)) \o ParagraphTextOf(Tail(elements))

\* paragraphText.match(new RegExp(`📝 NOTE ${n}: (.+?)(?=\\n|$)`, "s")): the
\* prefix, then at least one character of any kind.
MatchesNote(paragraphText, noteNumber) ==
    \E p \in 1..Len(paragraphText) :
        /\ OccursAt(paragraphText, p, NotePrefix(noteNumber))
        /\ p + Len(NotePrefix(noteNumber)) <= Len(paragraphText)

\* element.startIndex ?? 0
StartIndexOf(element) ==
    IF "startIndex" \in DOMAIN element THEN element.startIndex ELSE 0

\* The paragraph that holds the note: its place in the content, 0 when
\* there is none.
NoteParagraph(content, noteNumber) ==
    LET hits == { i \in 1..Len(content) :
                    /\ "paragraph" \in DOMAIN content[i]
                    /\ MatchesNote(ParagraphTextOf(
                                      ParagraphElements(content[i].paragraph)),
                                   noteNumber) }
    IN  IF hits = {} THEN 0
        ELSE CHOOSE i \in hits : \A h \in hits : i <= h

\* updateNote from doc.data to the requests.
updateNote(data, noteNumber, newNoteText) ==
    IF ~HasContent(data) THEN Throw(<< "Document has no content" >>)
    ELSE LET content == data.body.content
             found == NoteParagraph(content, noteNumber)
         IN  IF found = 0
             THEN Throw(<< "Could not find NOTE", noteNumber, "in the document" >>)
             ELSE LET paragraphText ==
                          ParagraphTextOf(ParagraphElements(content[found].paragraph))
                      paragraphStartIndex == StartIndexOf(content[found])
                      noteTextStart == IndexOf(paragraphText, NotePrefix(noteNumber))
                                       + Len(NotePrefix(noteNumber))
                      restOfText == SubSeq(paragraphText, noteTextStart + 1,
                                           Len(paragraphText))
                      endOfNote == IndexOf(restOfText, << NL >>)
                      noteStartIndex == paragraphStartIndex + noteTextStart
                      noteEndIndex ==
                          IF endOfNote # -1
                          THEN paragraphStartIndex + noteTextStart + endOfNote
                          ELSE paragraphStartIndex + noteTextStart + Len(restOfText)
                  IN  [ok |-> TRUE,
                       requests |-> << DeleteRequest(noteStartIndex, noteEndIndex),
                                       InsertTextRequest(noteStartIndex, newNoteText) >>]

\* The start of the range as it is before the test of noteStartIndex.
ClampedStartAsIs(noteStartIndex) == noteStartIndex

\* if (noteStartIndex < 1) noteStartIndex = 1
ClampedStart(noteStartIndex) ==
    IF noteStartIndex < 1 THEN 1 ELSE noteStartIndex

\* removeNote from doc.data to the requests.
removeNote(data, noteNumber) ==
    IF ~HasContent(data) THEN Throw(<< "Document has no content" >>)
    ELSE LET content == data.body.content
             found == FirstParagraphWith(content, NoteHeader(noteNumber))
         IN  IF found = 0 \/ "endIndex" \notin DOMAIN content[found]
             THEN Throw(<< "Could not find NOTE", noteNumber, "in the document" >>)
             ELSE LET noteStartIndex == StartIndexOf(content[found]) - 1
                  IN  [ok |-> TRUE,
                       requests |->
                          << DeleteRequest(ClampedStart(noteStartIndex),
                                           content[found].endIndex) >>]

(***************************************************************************)
(* The note tools, one call after the other on one document.  A call is    *)
(* one invocation of insertNote, updateNote or removeNote: documents.get,  *)
(* the requests, one documents.batchUpdate.  doc0 is the document before   *)
(* the latest call, calls the batch the latest call submitted, if any.     *)
(***************************************************************************)
MaxNoteCalls == 3
MaxNoteNumberAsked == 3

PlainDoc(text) ==
    [cells |-> CellsOf(text, 0),
     attrs |-> [k \in 1..Len(text) |->
                  IF text[k] = NL THEN NamedStyleAttribute("NORMAL_TEXT")
                  ELSE EmptyObject]]

\* The paragraphs "x\n" and "y\n"; and a document whose first paragraph is
\* a note, followed by "x\n" and "y\n".
NoteDocs ==
    { PlainDoc(<< "x", NL, "y", NL >>),
      PlainDoc(NotePrefix(1) \o << "a", NL, "x", NL, "y", NL >>) }

NoteTexts == { <<>>, << "a" >> }
NewNoteTexts == { << "b" >>, << "c", "d" >> }
SearchTexts == { << "x" >>, << "y" >>, << "q" >> }
NoteDocRefs == { GoodId, << "#" >> }

InsertNoteArgs ==
    { [tool |-> "gdrive_insert_doc_note", doc_id_or_url |-> r,
       search_text |-> s, note |-> n] :
        r \in NoteDocRefs, s \in SearchTexts, n \in NoteTexts }

UpdateNoteArgs ==
    { [tool |-> "gdrive_update_doc_note", doc_id_or_url |-> r,
       note_number |-> n, new_text |-> t] :
        r \in NoteDocRefs, n \in 1..MaxNoteNumberAsked, t \in NewNoteTexts }

RemoveNoteArgs ==
    { [tool |-> "gdrive_remove_doc_note", doc_id_or_url |-> r,
       note_number |-> n] :
        r \in NoteDocRefs, n \in 1..MaxNoteNumberAsked }

\* What a call does up to its batchUpdate, documents.get having answered.
NotePlan(d, a) ==
    IF extractDocId(a.doc_id_or_url) = None
    THEN Throw(<< "Invalid document ID or URL" >>)
    ELSE IF a.tool = "gdrive_insert_doc_note"
    THEN insertNote(StyledSnapshot(d), a.search_text, a.note)
    ELSE IF a.tool = "gdrive_update_doc_note"
    THEN updateNote(StyledSnapshot(d), a.note_number, a.new_text)
    ELSE removeNote(StyledSnapshot(d), a.note_number)

\* The catch of each tool: `Failed to insert note: ${error.message}`.
NoteFailure(a, message) ==
    IF extractDocId(a.doc_id_or_url) = None THEN ErrorResult(message)
    ELSE IF a.tool = "gdrive_insert_doc_note"
    THEN ErrorResult(<< "Failed to insert note:", message >>)
    ELSE IF a.tool = "gdrive_update_doc_note"
    THEN ErrorResult(<< "Failed to update note:", message >>)
    ELSE ErrorResult(<< "Failed to remove note:", message >>)

NoteSuccess(a) ==
    [content |->
        << [type |-> "text",
            text |-> IF a.tool = "gdrive_insert_doc_note"
                     THEN << "Note inserted successfully after the text:",
                             a.search_text >>
                     ELSE IF a.tool = "gdrive_update_doc_note"
                     THEN << "Successfully updated NOTE", a.note_number >>
                     ELSE << "Successfully removed NOTE", a.note_number >>] >>]

\* The document once a batch is over: no character is of a running batch.
Settled(d) == [d EXCEPT !.cells = CellsOf(TextOf(d.cells), 0)]

InitNotes ==
    /\ pc = "idle"
    /\ args = None
    /\ doc \in NoteDocs
    /\ doc0 = doc
    /\ snapshot = None
    /\ requests = <<>>
    /\ currentIndex = 0
    /\ calls = <<>>
    /\ result = None

\* The call ends before any batchUpdate: the reference is invalid,
\* documents.get fails, or the tool throws.
NoteRejected(a) ==
    /\ currentIndex < MaxNoteCalls
    /\ \/ /\ ~NotePlan(doc, a).ok
          /\ result' = NoteFailure(a, NotePlan(doc, a).message)
       \/ /\ extractDocId(a.doc_id_or_url) # None
          /\ result' = NoteFailure(a, << "documents.get failed" >>)
    /\ pc' = "rejected"
    /\ args' = a
    /\ doc0' = doc
    /\ requests' = <<>>
    /\ calls' = <<>>
    /\ currentIndex' = currentIndex + 1
    /\ UNCHANGED <<doc, snapshot>>

\* The batch is submitted and the service does not apply it.
NoteBatchFails(a) ==
    /\ currentIndex < MaxNoteCalls
    /\ NotePlan(doc, a).ok
    /\ pc' = "failed"
    /\ args' = a
    /\ doc0' = doc
    /\ requests' = NotePlan(doc, a).requests
    /\ calls' = Answered(<< BatchUpdateCall(extractDocId(a.doc_id_or_url),
                                           NotePlan(doc, a).requests) >>,
                         "error")
    /\ result' = NoteFailure(a, << "documents.batchUpdate failed" >>)
    /\ currentIndex' = currentIndex + 1
    /\ UNCHANGED <<doc, snapshot>>

\* The batch is submitted and the service applies it.
NoteApplied(a, done) ==
    /\ currentIndex < MaxNoteCalls
    /\ NotePlan(doc, a).ok
    /\ ApplyStyledBatch(doc, NotePlan(doc, a).requests).ok
    /\ pc' = done
    /\ args' = a
    /\ doc0' = doc
    /\ doc' = Settled(ApplyStyledBatch(doc, NotePlan(doc, a).requests).doc)
    /\ requests' = NotePlan(doc, a).requests
    /\ calls' = Answered(<< BatchUpdateCall(extractDocId(a.doc_id_or_url),
                                           NotePlan(doc, a).requests) >>,
                         "ok")
    /\ result' = NoteSuccess(a)
    /\ currentIndex' = currentIndex + 1
    /\ UNCHANGED snapshot

InsertNoteRejected == \E a \in InsertNoteArgs : NoteRejected(a)
InsertNoteFails == \E a \in InsertNoteArgs : NoteBatchFails(a)
InsertNoteApplied == \E a \in InsertNoteArgs : NoteApplied(a, "inserted")

UpdateNoteRejected == \E a \in UpdateNoteArgs : NoteRejected(a)
UpdateNoteFails == \E a \in UpdateNoteArgs : NoteBatchFails(a)
UpdateNoteApplied == \E a \in UpdateNoteArgs : NoteApplied(a, "updated")

RemoveNoteRejected == \E a \in RemoveNoteArgs : NoteRejected(a)
RemoveNoteFails == \E a \in RemoveNoteArgs : NoteBatchFails(a)
RemoveNoteApplied == \E a \in RemoveNoteArgs : NoteApplied(a, "removed")

NextNotes ==
    \/ InsertNoteRejected
    \/ InsertNoteFails
    \/ InsertNoteApplied
    \/ UpdateNoteRejected
    \/ UpdateNoteFails
    \/ UpdateNoteApplied
    \/ RemoveNoteRejected
    \/ RemoveNoteFails
    \/ RemoveNoteApplied

SpecNotes == InitNotes /\ [][NextNotes]_vars

\* The text of a document.
DocText(d) == TextOf(d.cells)

\* The positions of the text at which the header of note n stands.
HeaderPositions(text, n) ==
    { p \in 1..Len(text) : OccursAt(text, p, NoteHeader(n)) }

\* The numbers of the notes of a document.
NoteNumbers(d) ==
    { n \in 1..(MaxNoteCalls + 1) : HeaderPositions(DocText(d), n) # {} }

Largest(S) == IF S = {} THEN 0 ELSE CHOOSE n \in S : \A m \in S : m <= n

HeaderStart(d, n) == CHOOSE p \in HeaderPositions(DocText(d), n) : TRUE

\* The index of the first character after the header of note n and the
\* space that follows it.
NoteTextStart(d, n) == HeaderStart(d, n) + Len(NoteHeader(n)) + 1

\* C22: a call of update_doc_note for a note the document does not hold
\* fails and submits no batch; a batch the tool submits is one
\* deleteContentRange from the first character after the prefix of the note
\* to the newline that ends its text, then one insertText of new_text at the
\* same index; and once applied the document holds the notes it held, the
\* header of the note stands where it stood and only the text between these
\* two indices has been replaced.
C22_UpdateReplacesOnlyText ==
    (pc # "idle" /\ args.tool = "gdrive_update_doc_note") =>
        LET n == args.note_number
            s == NoteTextStart(doc0, n)
            e == NextNewline(doc0.cells, s)
        IN  /\ HeaderPositions(DocText(doc0), n) = {} =>
                  /\ pc = "rejected"
                  /\ calls = <<>>
                  /\ doc = doc0
                  /\ IsError(result)
            /\ calls # <<>> =>
                  /\ Len(calls) = 1
                  /\ calls[1].requests =
                        << DeleteRequest(s, e), InsertTextRequest(s, args.new_text) >>
            /\ pc = "updated" =>
                  /\ DocText(doc) =
                        SubSeq(DocText(doc0), 1, s - 1) \o args.new_text
                        \o SubSeq(DocText(doc0), e, Len(doc0.cells))
                  /\ NoteNumbers(doc) = NoteNumbers(doc0)
                  /\ HeaderStart(doc, n) = HeaderStart(doc0, n)
                  /\ OccursAt(DocText(doc), HeaderStart(doc, n),
                              NotePrefix(n) \o args.new_text \o << NL >>)
            /\ pc # "updated" => doc = doc0

\* The text "a" of note 1 has been replaced by "cd".
C22_Witness ==
    /\ pc = "updated"
    /\ args.note_number = 1
    /\ args.new_text = << "c", "d" >>
    /\ OccursAt(DocText(doc0), 1, NotePrefix(1) \o << "a", NL >>)
    /\ OccursAt(DocText(doc), 1, NotePrefix(1) \o << "c", "d", NL >>)

\* The paragraph of the document in which the header of note n stands: the
\* index of its first character and the index after its newline.
NoteParagraphStart(d, n) ==
    ParagraphStart(d.cells, NextNewline(d.cells, HeaderStart(d, n)))

NoteParagraphEnd(d, n) == NextNewline(d.cells, HeaderStart(d, n)) + 1

\* C23: a call of remove_doc_note for a note the document does not hold
\* fails and submits no batch, so the document is as it was; a batch the
\* tool submits is one deleteContentRange from one index before the start
\* of the paragraph that holds the header of the note, and from 1 at least,
\* to the end of that paragraph; and once it is applied this range is gone
\* and no header of the note is left in the document.
C23_RemoveDeletesParagraph ==
    (pc # "idle" /\ args.tool = "gdrive_remove_doc_note") =>
        LET n == args.note_number
            s == IF NoteParagraphStart(doc0, n) - 1 < 1 THEN 1
                 ELSE NoteParagraphStart(doc0, n) - 1
            e == NoteParagraphEnd(doc0, n)
        IN  /\ n \notin NoteNumbers(doc0) =>
                  /\ pc = "rejected"
                  /\ calls = <<>>
                  /\ doc = doc0
                  /\ IsError(result)
            /\ calls # <<>> =>
                  /\ Len(calls) = 1
                  /\ calls[1].requests = << DeleteRequest(s, e) >>
            /\ pc = "removed" =>
                  /\ DocText(doc) =
                        SubSeq(DocText(doc0), 1, s - 1)
                        \o SubSeq(DocText(doc0), e, Len(doc0.cells))
                  /\ NoteNumbers(doc) = NoteNumbers(doc0) \ { n }
                  /\ n \in NoteNumbers(doc0)
            /\ pc # "removed" => doc = doc0

\* Note 1, the first paragraph of the document, has been removed with a
\* range that starts at 1.
C23_Witness ==
    /\ pc = "removed"
    /\ args.note_number = 1
    /\ NoteParagraphStart(doc0, 1) = 1
    /\ requests = << DeleteRequest(1, NoteParagraphEnd(doc0, 1)) >>
    /\ NoteNumbers(doc) = {}

\* The ranges the instructions of a batch carry.
RangesIn(reqs) ==
    UNION { { reqs[k][key].range : key \in DOMAIN reqs[k] \ { "insertText" } } :
            k \in 1..Len(reqs) }

WellFormed(range) == 1 <= range.startIndex /\ range.startIndex < range.endIndex

\* C26: every range in a batch that insert_doc_note, update_doc_note or
\* remove_doc_note submits is well formed and not empty:
\* 1 <= startIndex < endIndex.
C26_RangesNonEmpty ==
    \A k \in 1..Len(calls) : \A range \in RangesIn(calls[k].requests) :
        WellFormed(range)

(***************************************************************************)
(* A note is inserted and at once removed: the document is rendered, one   *)
(* call of insert_doc_note, one call of remove_doc_note for the number the *)
(* note was given, and the document is rendered again.  doc0 is the        *)
(* document at the start, currentIndex the number of the inserted note.    *)
(***************************************************************************)
NoteTripDocs ==
    StyledDocs \cup NoteDocs
    \cup { PlainDoc(<< "x", NL, "z", NL, "y", NL >>) }

InitNoteTrip ==
    /\ pc = "idle"
    /\ args = None
    /\ doc \in NoteTripDocs
    /\ doc0 = doc
    /\ snapshot = None
    /\ requests = <<>>
    /\ currentIndex = 0
    /\ calls = <<>>
    /\ result = None

RenderNoteBefore ==
    /\ pc = "idle"
    /\ pc' = "rendered"
    /\ snapshot' = convertDocToMarkdown(StyledSnapshot(doc))
    /\ UNCHANGED <<args, doc, doc0, requests, currentIndex, calls, result>>

TripInsert ==
    /\ pc = "rendered"
    /\ \E a \in InsertNoteArgs :
          /\ NotePlan(doc, a).ok
          /\ ApplyStyledBatch(doc, NotePlan(doc, a).requests).ok
          /\ args' = a
          /\ doc' = Settled(ApplyStyledBatch(doc, NotePlan(doc, a).requests).doc)
          /\ requests' = NotePlan(doc, a).requests
          /\ currentIndex' = NotePlan(doc, a).nextNoteNumber
    /\ pc' = "inserted"
    /\ UNCHANGED <<doc0, snapshot, calls, result>>

TripInsertFails ==
    /\ pc = "rendered"
    /\ \E a \in InsertNoteArgs :
          /\ args' = a
          /\ result' = IF NotePlan(doc, a).ok
                       THEN NoteFailure(a, << "documents.batchUpdate failed" >>)
                       ELSE NoteFailure(a, NotePlan(doc, a).message)
    /\ pc' = "refused"
    /\ UNCHANGED <<doc, doc0, snapshot, requests, currentIndex, calls>>

\* The call of remove_doc_note for the note just inserted.
TripRemoveArgs ==
    [tool |-> "gdrive_remove_doc_note", doc_id_or_url |-> GoodId,
     note_number |-> currentIndex]

TripRemove ==
    /\ pc = "inserted"
    /\ NotePlan(doc, TripRemoveArgs).ok
    /\ ApplyStyledBatch(doc, NotePlan(doc, TripRemoveArgs).requests).ok
    /\ doc' = Settled(ApplyStyledBatch(doc,
                                       NotePlan(doc, TripRemoveArgs).requests).doc)
    /\ requests' = NotePlan(doc, TripRemoveArgs).requests
    /\ pc' = "removed"
    /\ UNCHANGED <<args, doc0, snapshot, currentIndex, calls, result>>

TripRemoveFails ==
    /\ pc = "inserted"
    /\ result' = IF NotePlan(doc, TripRemoveArgs).ok
                 THEN NoteFailure(TripRemoveArgs, << "documents.batchUpdate failed" >>)
                 ELSE NoteFailure(TripRemoveArgs,
                                  NotePlan(doc, TripRemoveArgs).message)
    /\ pc' = "refused"
    /\ UNCHANGED <<args, doc, doc0, snapshot, requests, currentIndex, calls>>

RenderNoteAfter ==
    /\ pc = "removed"
    /\ pc' = "rerendered"
    /\ result' = convertDocToMarkdown(StyledSnapshot(doc))
    /\ UNCHANGED <<args, doc, doc0, snapshot, requests, currentIndex, calls>>

NextNoteTrip ==
    \/ RenderNoteBefore
    \/ TripInsert
    \/ TripInsertFails
    \/ TripRemove
    \/ TripRemoveFails
    \/ RenderNoteAfter

SpecNoteTrip == InitNoteTrip /\ [][NextNoteTrip]_vars

\* C27: once a note has been inserted and the same note removed, the text
\* of the document is the text it had before, character for character and
\* index for index, and the Markdown rendered after is the Markdown
\* rendered before.
C27_NoteRoundTrip ==
    pc = "rerendered" =>
        /\ DocText(doc) = DocText(doc0)
        /\ result = snapshot

====
